---- MODULE Spec2Model ----
(***************************************************************************)
(* Model of xSNUpdateSetBuilder (global.xSNUpdateSetBuilder.js): the       *)
(* capture queue (_capturedObjectMap / _capturedObjectCount), the capture  *)
(* operations that fill it and writeUpdateSet, which writes the queue to   *)
(* an update set.  The platform (GlideRecord, GlideUpdateSet,              *)
(* GlideUpdateManager2, gs) is modelled by a small record store, the       *)
(* session's current update set and the session's current scope.           *)
(*                                                                         *)
(* Spec explores the queue, the unique lookups, the archive rules and      *)
(* writeUpdateSet; SpecComposite the capture operations that walk form     *)
(* and list layouts and catalog variables; SpecRelated the operations that *)
(* capture a record with the records related to it and the lookups that    *)
(* depend on the session's scope; SpecLogger the xBufferedLogger script    *)
(* include, which is independent of the builder.                           *)
(***************************************************************************)
EXTENDS Integers, Sequences, FiniteSets, TLC

VARIABLES capturedObjectMap,    \* this._capturedObjectMap, in insertion (for-in) order
          capturedObjectCount,  \* this._capturedObjectCount
          sysUpdateSet,         \* rows of table sys_update_set
          currentUpdateSet,     \* the session's current update set (GlideUpdateSet get/set)
          currentScope,         \* gs.getCurrentScopeName()
          lastOp,               \* the operation called last, its arguments (arg a
                                \* string, gr a GlideRecord, val a typed value) and
                                \* the platform call that failed during it
          thrown,               \* what that call threw (NoError when it returned)
          returned,             \* the value that call returned
          trace,                \* the calls that operation made, in order, as events
          stmtQueue,            \* xBufferedLogger: this.stmtQueue
          currentLevel,         \* xBufferedLogger: this.currentLevel (a LOG_LEVEL key)
          separatorChar         \* xBufferedLogger: this._separatorChar

\* the fields of an xBufferedLogger
loggerVars == <<stmtQueue, currentLevel, separatorChar>>

vars == <<capturedObjectMap, capturedObjectCount, sysUpdateSet, currentUpdateSet,
          currentScope, lastOp, thrown, returned, trace, stmtQueue, currentLevel,
          separatorChar>>

-----------------------------------------------------------------------------
(* Bounds of the exploration.                                              *)

\* capture operations are explored while the queue holds fewer entries than this
MaxObjects == 3

\* depth of nested captureArchivalRule calls at which the interpreter's
\* call stack is exhausted
MaxCallDepth == 4

-----------------------------------------------------------------------------
(* JavaScript values.                                                      *)

\* null / undefined
Null == "null"

\* JSUtil.nil(x): null, undefined or the empty string
JSUtilNil(x) == x = Null \/ x = ""

\* "" + x
ToStr(x) == IF x = Null THEN "null" ELSE x

\* !x for a string-or-undefined value
Falsy(x) == x = Null \/ x = ""

\* a GlideRecord object positioned on a row: its sys_id element and getTableName()
GR(id, tbl) == [sys_id |-> id, tbl |-> tbl]

\* a null / undefined object reference
NullGR == GR(Null, Null)

\* JavaScript values whose type matters: undefined, null, numbers and strings
Undefined == [type |-> "undefined"]

JSNull == [type |-> "null"]

JSNumber(n) == [type |-> "number", val |-> n]

JSString(s) == [type |-> "string", val |-> s]

-----------------------------------------------------------------------------
(* Table names (xSNUpdateSetBuilder._TABLES).                              *)

\* xSNUpdateSetBuilder._TABLES: the tables the modelled operations use
TABLES ==
    [SYS_SCOPE                             |-> "sys_scope",
     UPDATE_SET                            |-> "sys_update_set",
     SYS_PROPERTIES                        |-> "sys_properties",
     ARCHIVE_RULE                          |-> "sys_archive",
     ARCHIVE_RULE_RELATED                  |-> "sys_archive_related",
     CATALOG_ITEM_VARIABLE                 |-> "item_option_new",
     CATALOG_ITEM_VARIABLE_QUESTION_CHOICE |-> "question_choice",
     UI_VIEW                               |-> "sys_ui_view",
     FORM                                  |-> "sys_ui_form",
     FORM_SECTION                          |-> "sys_ui_form_section",
     FORM_LAYOUT                           |-> "sys_ui_section",
     FORM_RELATED_LIST                     |-> "sys_ui_related_list",
     LIST_LAYOUT                           |-> "sys_ui_list",
     LIST_CONTROL                          |-> "sys_ui_list_control",
     SYS_PROPERTIES_CATEGORY               |-> "sys_properties_category",
     SYS_PROPERTIES_CATEGORY_ASSOC         |-> "sys_properties_category_m2m",
     SYS_DB_OBJECT                         |-> "sys_db_object",
     SYS_SECURITY_ACL                      |-> "sys_security_acl",
     SYS_SECURITY_ACL_ROLE                 |-> "sys_security_acl_role",
     SCRIPT_INCLUDE                        |-> "sys_script_include",
     UI_POLICY                             |-> "sys_ui_policy",
     UI_POLICY_ACTION                      |-> "sys_ui_policy_action",
     ROLE                                  |-> "sys_user_role"]

\* the tables the reference fields of a catalog variable point to
REF_TABLES ==
    [UI_MACRO    |-> "sys_ui_macro",
     SP_WIDGET   |-> "sp_widget",
     MACROPONENT |-> "sys_ux_macroponent",
     UI_PAGE     |-> "sys_ui_page"]

-----------------------------------------------------------------------------
(* Errors thrown by the builder.                                           *)

NoError == "none"
ErrNilParam == "parameter is nil!"
ErrNullGR == "parameter 'gr' is null!"
ErrNoScopeName == "No scope name found!"
ErrNoScope == "No scope found with name"
ErrNoCurrentUpdateSet == "Unable to retrieve GR for current update set!"
ErrNotFound == "No record found for query"
ErrMultiple == "found multiple records for provided query!"
ErrNoArchiveRule == "No archive rule found for sys_id"
ErrStackOverflow == "stack overflow"

\* an error raised by the platform inside a call the builder makes
ErrPlatform == "platform error"

\* the position of the platform call that raises during writeUpdateSet's write
\* phase: 0 is gus.set, i the calls made for the i-th entry; NoFault is none
NoFault == -1

-----------------------------------------------------------------------------
(* The record store.                                                       *)

\* a row of table tbl with the given fields
RowOf(tbl, fields) == [tbl |-> tbl] @@ fields

\* system properties, archive rules and their related-table rows, by sys_id
CoreRows ==
    [id \in {"p1", "p2", "p3", "a", "b", "c", "d", "r1", "r2", "r3", "r4", "r5"} |->
        CASE id = "p1" -> RowOf(TABLES.SYS_PROPERTIES, [name |-> "glide.a"])
          [] id = "p2" -> RowOf(TABLES.SYS_PROPERTIES, [name |-> "glide.b"])
          [] id = "p3" -> RowOf(TABLES.SYS_PROPERTIES, [name |-> "glide.b"])
          [] id = "a"  -> RowOf(TABLES.ARCHIVE_RULE, [name |-> "rule a"])
          [] id = "b"  -> RowOf(TABLES.ARCHIVE_RULE, [name |-> "rule b"])
          [] id = "c"  -> RowOf(TABLES.ARCHIVE_RULE, [name |-> "rule c"])
          [] id = "d"  -> RowOf(TABLES.ARCHIVE_RULE, [name |-> "rule d"])
          [] id = "r1" -> RowOf(TABLES.ARCHIVE_RULE_RELATED,
                                [archive_map |-> "a", table_archive_rule |-> "b"])
          [] id = "r2" -> RowOf(TABLES.ARCHIVE_RULE_RELATED,
                                [archive_map |-> "b", table_archive_rule |-> "a"])
          [] id = "r3" -> RowOf(TABLES.ARCHIVE_RULE_RELATED,
                                [archive_map |-> "c", table_archive_rule |-> "c"])
          [] id = "r4" -> RowOf(TABLES.ARCHIVE_RULE_RELATED,
                                [archive_map |-> "c", table_archive_rule |-> ""])
          [] id = "r5" -> RowOf(TABLES.ARCHIVE_RULE_RELATED,
                                [archive_map |-> "d", table_archive_rule |-> "c"])]

\* forms of incident for the default view (no related list), a report view
\* and the mobile view (with a related list), and a form of task; f5 and fs5
\* are rows whose reference is empty
FormRows ==
    [id \in {"v1", "v2", "v3", "f1", "f2", "f3", "f4", "f5", "fs1", "fs2", "fs3",
             "fs4", "fs5", "s1", "s2", "s3", "s4", "rl3", "rl4"} |->
        CASE id = "v1"  -> RowOf(TABLES.UI_VIEW, [name |-> ""])
          [] id = "v2"  -> RowOf(TABLES.UI_VIEW, [name |-> "Rpt-assets"])
          [] id = "v3"  -> RowOf(TABLES.UI_VIEW, [name |-> "mobile"])
          [] id = "f1"  -> RowOf(TABLES.FORM, [name |-> "incident", view |-> "v1"])
          [] id = "f2"  -> RowOf(TABLES.FORM, [name |-> "incident", view |-> "v2"])
          [] id = "f3"  -> RowOf(TABLES.FORM, [name |-> "incident", view |-> "v3"])
          [] id = "f4"  -> RowOf(TABLES.FORM, [name |-> "task", view |-> "v1"])
          [] id = "f5"  -> RowOf(TABLES.FORM, [name |-> "incident", view |-> ""])
          [] id = "fs1" -> RowOf(TABLES.FORM_SECTION,
                [sys_ui_form |-> "f1", sys_ui_section |-> "s1"])
          [] id = "fs2" -> RowOf(TABLES.FORM_SECTION,
                [sys_ui_form |-> "f1", sys_ui_section |-> "s2"])
          [] id = "fs3" -> RowOf(TABLES.FORM_SECTION,
                [sys_ui_form |-> "f3", sys_ui_section |-> "s3"])
          [] id = "fs4" -> RowOf(TABLES.FORM_SECTION,
                [sys_ui_form |-> "f4", sys_ui_section |-> "s4"])
          [] id = "fs5" -> RowOf(TABLES.FORM_SECTION, [sys_ui_form |-> "f3", sys_ui_section |-> ""])
          [] id = "s1"  -> RowOf(TABLES.FORM_LAYOUT, [name |-> "incident"])
          [] id = "s2"  -> RowOf(TABLES.FORM_LAYOUT, [name |-> "incident"])
          [] id = "s3"  -> RowOf(TABLES.FORM_LAYOUT, [name |-> "incident"])
          [] id = "s4"  -> RowOf(TABLES.FORM_LAYOUT, [name |-> "task"])
          [] id = "rl3" -> RowOf(TABLES.FORM_RELATED_LIST, [name |-> "incident", view |-> "v3"])
          [] id = "rl4" -> RowOf(TABLES.FORM_RELATED_LIST, [name |-> "task", view |-> "v1"])]

\* list layouts and list controls; l5 refers to a view that no longer exists
ListRows ==
    [id \in {"l1", "l2", "l3", "l4", "l5", "l6", "lc1"} |->
        CASE id = "l1"  -> RowOf(TABLES.LIST_LAYOUT,
                [name |-> "incident", view |-> "v1", sys_user |-> "", relationship |-> ""])
          [] id = "l2"  -> RowOf(TABLES.LIST_LAYOUT,
                [name |-> "incident", view |-> "v2", sys_user |-> "", relationship |-> ""])
          [] id = "l3"  -> RowOf(TABLES.LIST_LAYOUT,
                [name |-> "incident", view |-> "v3", sys_user |-> "u1", relationship |-> ""])
          [] id = "l4"  -> RowOf(TABLES.LIST_LAYOUT,
                [name |-> "task", view |-> "v3", sys_user |-> "", relationship |-> ""])
          [] id = "l5"  -> RowOf(TABLES.LIST_LAYOUT,
                [name |-> "task", view |-> "v9", sys_user |-> "", relationship |-> ""])
          [] id = "l6"  -> RowOf(TABLES.LIST_LAYOUT,
                [name |-> "incident", view |-> "v3", sys_user |-> "",
                 relationship |-> "rel1"])
          [] id = "lc1" -> RowOf(TABLES.LIST_CONTROL, [name |-> "incident"])]

\* tables, their ACLs (acl3 is a field-level ACL) and UI policies, property
\* categories (the second property of Cat A has the name of two rows), script
\* includes and roles
RelatedRows ==
    [id \in {"t1", "t2", "acl1", "acl2", "acl3", "acl4", "ar1", "ar2", "ar3", "ar4",
             "up1", "up2", "ua1", "ua2", "ua3", "cat1", "cat2", "m1", "m2", "m3", "m4",
             "si1", "si2", "ro1", "ro2"} |->
        CASE id = "t1"   -> RowOf(TABLES.SYS_DB_OBJECT, [name |-> "incident"])
          [] id = "t2"   -> RowOf(TABLES.SYS_DB_OBJECT, [name |-> "task"])
          [] id = "acl1" -> RowOf(TABLES.SYS_SECURITY_ACL, [name |-> "incident"])
          [] id = "acl2" -> RowOf(TABLES.SYS_SECURITY_ACL, [name |-> "incident"])
          [] id = "acl3" -> RowOf(TABLES.SYS_SECURITY_ACL, [name |-> "incident.number"])
          [] id = "acl4" -> RowOf(TABLES.SYS_SECURITY_ACL, [name |-> "task"])
          [] id = "ar1"  -> RowOf(TABLES.SYS_SECURITY_ACL_ROLE, [sys_security_acl |-> "acl1"])
          [] id = "ar2"  -> RowOf(TABLES.SYS_SECURITY_ACL_ROLE, [sys_security_acl |-> "acl1"])
          [] id = "ar3"  -> RowOf(TABLES.SYS_SECURITY_ACL_ROLE, [sys_security_acl |-> "acl3"])
          [] id = "ar4"  -> RowOf(TABLES.SYS_SECURITY_ACL_ROLE, [sys_security_acl |-> "acl4"])
          [] id = "up1"  -> RowOf(TABLES.UI_POLICY, [table |-> "incident"])
          [] id = "up2"  -> RowOf(TABLES.UI_POLICY, [table |-> "task"])
          [] id = "ua1"  -> RowOf(TABLES.UI_POLICY_ACTION, [ui_policy |-> "up1"])
          [] id = "ua2"  -> RowOf(TABLES.UI_POLICY_ACTION, [ui_policy |-> "up2"])
          [] id = "ua3"  -> RowOf(TABLES.UI_POLICY_ACTION, [ui_policy |-> "up1"])
          [] id = "cat1" -> RowOf(TABLES.SYS_PROPERTIES_CATEGORY, [name |-> "Cat A"])
          [] id = "cat2" -> RowOf(TABLES.SYS_PROPERTIES_CATEGORY, [name |-> "Cat B"])
          [] id = "m1"   -> RowOf(TABLES.SYS_PROPERTIES_CATEGORY_ASSOC,
                [category |-> "cat1", property |-> "p1"])
          [] id = "m2"   -> RowOf(TABLES.SYS_PROPERTIES_CATEGORY_ASSOC,
                [category |-> "cat1", property |-> "p2"])
          [] id = "m3"   -> RowOf(TABLES.SYS_PROPERTIES_CATEGORY_ASSOC,
                [category |-> "cat2", property |-> "p1"])
          [] id = "m4"   -> RowOf(TABLES.SYS_PROPERTIES_CATEGORY_ASSOC,
                [category |-> "cat2", property |-> ""])
          [] id = "si1"  -> RowOf(TABLES.SCRIPT_INCLUDE, [api_name |-> "global.Util"])
          [] id = "si2"  -> RowOf(TABLES.SCRIPT_INCLUDE, [api_name |-> "x_app.Util"])
          [] id = "ro1"  -> RowOf(TABLES.ROLE, [sys_scope |-> "global", name |-> "u_admin"])
          [] id = "ro2"  -> RowOf(TABLES.ROLE, [sys_scope |-> "app1", name |-> "u_admin"])]

\* catalog variables of types 14, 17, 3, 5, 15 and 1 (cv1, cv3 and cv15 with
\* references their type does not use), their choices and the records they
\* refer to
CatalogRows ==
    [id \in {"cv14", "cv17", "cv3", "cv5", "cv15", "cv1", "qc1", "qc2", "qc3", "qc4",
             "mac1", "sum1", "wid1", "mcp1", "page1"} |->
        CASE id = "cv14" -> RowOf(TABLES.CATALOG_ITEM_VARIABLE,
                [type |-> "14", macro |-> "mac1", summary_macro |-> "", sp_widget |-> "wid1",
                 macroponent |-> "", ui_page |-> ""])
          [] id = "cv17" -> RowOf(TABLES.CATALOG_ITEM_VARIABLE,
                [type |-> "17", macro |-> "", summary_macro |-> "sum1", sp_widget |-> "",
                 macroponent |-> "mcp1", ui_page |-> "page1"])
          [] id = "cv3"  -> RowOf(TABLES.CATALOG_ITEM_VARIABLE,
                [type |-> "3", macro |-> "mac1", summary_macro |-> "", sp_widget |-> "",
                 macroponent |-> "", ui_page |-> ""])
          [] id = "cv5"  -> RowOf(TABLES.CATALOG_ITEM_VARIABLE,
                [type |-> "5", macro |-> "", summary_macro |-> "", sp_widget |-> "",
                 macroponent |-> "", ui_page |-> ""])
          [] id = "cv15" -> RowOf(TABLES.CATALOG_ITEM_VARIABLE,
                [type |-> "15", macro |-> "mac1", summary_macro |-> "", sp_widget |-> "",
                 macroponent |-> "", ui_page |-> "page1"])
          [] id = "cv1"  -> RowOf(TABLES.CATALOG_ITEM_VARIABLE,
                [type |-> "1", macro |-> "mac1", summary_macro |-> "sum1",
                 sp_widget |-> "wid1", macroponent |-> "mcp1", ui_page |-> "page1"])
          [] id = "qc1"  -> RowOf(TABLES.CATALOG_ITEM_VARIABLE_QUESTION_CHOICE,
                [question |-> "cv3"])
          [] id = "qc2"  -> RowOf(TABLES.CATALOG_ITEM_VARIABLE_QUESTION_CHOICE,
                [question |-> "cv3"])
          [] id = "qc3"  -> RowOf(TABLES.CATALOG_ITEM_VARIABLE_QUESTION_CHOICE,
                [question |-> "cv5"])
          [] id = "qc4"  -> RowOf(TABLES.CATALOG_ITEM_VARIABLE_QUESTION_CHOICE,
                [question |-> "cv1"])
          [] id = "mac1" -> RowOf(REF_TABLES.UI_MACRO, [name |-> "macro"])
          [] id = "sum1" -> RowOf(REF_TABLES.UI_MACRO, [name |-> "summary"])
          [] id = "wid1" -> RowOf(REF_TABLES.SP_WIDGET, [name |-> "widget"])
          [] id = "mcp1" -> RowOf(REF_TABLES.MACROPONENT, [name |-> "macroponent"])
          [] id = "page1" -> RowOf(REF_TABLES.UI_PAGE, [name |-> "page"])]

\* the rows of the store other than update sets, by sys_id
Rows == CoreRows @@ FormRows @@ CatalogRows @@ ListRows @@ RelatedRows

\* the order in which a query returns rows
RowOrder == <<"p1", "p2", "p3", "a", "b", "c", "d", "r1", "r2", "r3", "r4", "r5",
              "f1", "f2", "f3", "f4", "f5", "fs1", "fs2", "fs3", "fs4", "fs5",
              "rl3", "rl4", "v1", "v2", "v3", "s1", "s2", "s3", "s4",
              "cv14", "cv17", "cv3", "cv5", "cv15", "cv1", "qc1", "qc2", "qc3", "qc4",
              "mac1", "sum1", "wid1", "mcp1", "page1",
              "l1", "l2", "l3", "l4", "l5", "l6", "lc1",
              "t1", "t2", "acl1", "acl2", "acl3", "acl4", "ar1", "ar2", "ar3", "ar4",
              "up1", "up2", "ua1", "ua2", "ua3", "cat1", "cat2", "m1", "m2", "m3", "m4",
              "si1", "si2", "ro1", "ro2">>

\* rows of sys_scope: sys_id and name
ScopeRows == {[sys_id |-> "global", name |-> "global"],
              [sys_id |-> "app1", name |-> "x_app"]}

\* new GlideRecord(tbl).get(id)
GRGet(tbl, id) == id \in DOMAIN Rows /\ Rows[id].tbl = tbl

\* the sys_ids a query on tbl with field = value returns, in order
GRQuery(tbl, field, value) ==
    SelectSeq(RowOrder, LAMBDA id : Rows[id].tbl = tbl /\ Rows[id][field] = value)

\* the sys_ids a query on tbl with two addQuery conditions returns, in order
GRQueryBoth(tbl, field1, value1, field2, value2) ==
    SelectSeq(RowOrder, LAMBDA id : /\ Rows[id].tbl = tbl
                                    /\ Rows[id][field1] = value1
                                    /\ Rows[id][field2] = value2)

\* the sys_ids a query on tbl with addQuery(field, value) and
\* addNotNullQuery(notNull) returns, in order
GRQueryNotNull(tbl, field, value, notNull) ==
    SelectSeq(RowOrder, LAMBDA id : /\ Rows[id].tbl = tbl
                                    /\ Rows[id][field] = value
                                    /\ Rows[id][notNull] # "")

\* the sys_ids of all rows of tbl, in order
GRQueryAll(tbl) == SelectSeq(RowOrder, LAMBDA id : Rows[id].tbl = tbl)

\* the sys_ids a query on tbl with addQuery(field, value),
\* addNotNullQuery(notNull), addNullQuery(null1) and addNullQuery(null2)
\* returns, in order
GRQueryNulls(tbl, field, value, notNull, null1, null2) ==
    SelectSeq(RowOrder, LAMBDA id : /\ Rows[id].tbl = tbl
                                    /\ Rows[id][field] = value
                                    /\ Rows[id][notNull] # ""
                                    /\ Rows[id][null1] = ""
                                    /\ Rows[id][null2] = "")

\* element.getRefRecord() for a reference to table tbl holding id: the row
\* referred to, or an empty record when there is none
getRefRecord(tbl, id) == IF GRGet(tbl, id) THEN GR(id, tbl) ELSE GR("", tbl)

-----------------------------------------------------------------------------
(* The state a builder call works on.                                      *)

\* one call made by an operation: what was called, on which sys_id, and
\* (for a get) the table or (for a write) the update set current at the time;
\* a lookup event carries the table and the value looked for
Event(ev, id, arg) == [ev |-> ev, id |-> id, arg |-> arg]

\* the builder's fields, the session's update sets, the calls made so far, the
\* error thrown so far and the value returned (undefined until a return
\* statement is reached)
BuilderState(map, count, sets, current, tr, err) ==
    [map |-> map, count |-> count, sets |-> sets, current |-> current,
     trace |-> tr, thrown |-> err, returned |-> Undefined]

Log(st, ev) == [st EXCEPT !.trace = Append(st.trace, ev)]

Throw(st, err) == [st EXCEPT !.thrown = err]

\* a read of the record store the builder makes to find records: get(value),
\* get(field, value) or query() on table tbl
lookup(st, tbl, value) == Log(st, Event("lookup", tbl, value))

\* this._capturedObjectMap[sys_id]
MapGet(map, sys_id) ==
    IF \E i \in 1..Len(map) : map[i].sys_id = sys_id
    THEN map[CHOOSE i \in 1..Len(map) : map[i].sys_id = sys_id].tbl
    ELSE Null

\* this._capturedObjectMap[sys_id] = tbl
MapPut(map, sys_id, tbl) ==
    IF \E i \in 1..Len(map) : map[i].sys_id = sys_id
    THEN [i \in 1..Len(map) |-> IF map[i].sys_id = sys_id THEN GR(sys_id, tbl) ELSE map[i]]
    ELSE Append(map, GR(sys_id, tbl))

\* the property names of this._capturedObjectMap
MapKeys(map) == {map[i].sys_id : i \in 1..Len(map)}

\* a _recordObject that stores the container of the latest record for an
\* identifier
recordObject_Overwrite(st, gr) ==
    IF gr = NullGR
    THEN st
    ELSE LET sys_id == ToStr(gr.sys_id)
         IN  [st EXCEPT !.map = MapPut(st.map, sys_id, gr.tbl),
                        !.count = IF Falsy(MapGet(st.map, sys_id))
                                  THEN st.count + 1
                                  ELSE st.count]

\* a _recordObject that writes the record to the current update set at once
recordObject_WriteThrough(st, gr) ==
    IF gr = NullGR
    THEN st
    ELSE LET sys_id == ToStr(gr.sys_id)
         IN  IF Falsy(MapGet(st.map, sys_id))
             THEN Log([st EXCEPT !.map = MapPut(st.map, sys_id, gr.tbl),
                                 !.count = st.count + 1],
                      Event("saveRecord", sys_id, st.current))
             ELSE st

\* a _recordObject that counts every call
recordObject_AlwaysCount(st, gr) ==
    IF gr = NullGR
    THEN st
    ELSE LET sys_id == ToStr(gr.sys_id)
         IN  [st EXCEPT !.map = IF Falsy(MapGet(st.map, sys_id))
                                 THEN MapPut(st.map, sys_id, gr.tbl)
                                 ELSE st.map,
                        !.count = st.count + 1]

\* a _recordObject that inserts without counting
recordObject_NoCount(st, gr) ==
    IF gr = NullGR
    THEN st
    ELSE LET sys_id == ToStr(gr.sys_id)
         IN  IF Falsy(MapGet(st.map, sys_id))
             THEN [st EXCEPT !.map = MapPut(st.map, sys_id, gr.tbl)]
             ELSE st

\* _recordObject(gr)
recordObject(st, gr) ==
    IF gr = NullGR
    THEN st
    ELSE LET sys_id == ToStr(gr.sys_id)
             capturedObject == MapGet(st.map, sys_id)
         IN  IF Falsy(capturedObject)
             THEN [st EXCEPT !.map = MapPut(st.map, sys_id, gr.tbl),
                             !.count = st.count + 1]
             ELSE st

-----------------------------------------------------------------------------
(* xBufferedLogger: the log levels and the methods, as functions of the    *)
(* logger's fields.                                                        *)

\* log statements are queued while the queue holds fewer statements than this
MaxQueue == 2

\* xBufferedLogger.LOG_LEVEL
LOG_LEVEL ==
    [k \in {"DEBUG", "INFO", "WARN", "ERROR", "FATAL"} |->
        CASE k = "DEBUG" -> [value |-> 10000, label |-> "[DEBUG]"]
          [] k = "INFO"  -> [value |-> 20000, label |-> "[INFO]"]
          [] k = "WARN"  -> [value |-> 30000, label |-> "[WARN]"]
          [] k = "ERROR" -> [value |-> 40000, label |-> "[ERROR]"]
          [] k = "FATAL" -> [value |-> 50000, label |-> "[FATAL]"]]

ErrLogLevelMissing == "must specify log level upon creation!"
ErrInvalidLogLevel == "Invalid log level"

\* reading a property of null
ErrTypeError == "TypeError"

\* the result of ToNumber for a value that is not numeric
NaN == -1

\* ToNumber(s) for the strings callers pass in
StringToNumber(s) ==
    CASE s = "10000" -> 10000
      [] s = "40000" -> 40000
      [] OTHER -> NaN

\* v == n for a number n: a number equals itself, a string is converted
\* to a number first, null and undefined equal no number
LooseEqualsNumber(v, n) ==
    \/ v.type = "number" /\ v.val = n
    \/ v.type = "string" /\ StringToNumber(v.val) = n

\* the fields of a logger, what the running call has thrown and returned
LoggerState(queue, level, sep) ==
    [stmtQueue |-> queue, currentLevel |-> level, separatorChar |-> sep,
     thrown |-> NoError, returned |-> Undefined]

\* setLogLevel(logLevelVal)
setLogLevel(lg, logLevelVal) ==
    IF logLevelVal.type \in {"null", "undefined"}
    THEN [lg EXCEPT !.thrown = ErrLogLevelMissing]
    ELSE LET hit == {k \in DOMAIN LOG_LEVEL : LooseEqualsNumber(logLevelVal, LOG_LEVEL[k].value)}
         IN  IF hit = {}
             THEN [lg EXCEPT !.currentLevel = Null, !.thrown = ErrInvalidLogLevel]
             ELSE [lg EXCEPT !.currentLevel = CHOOSE k \in hit : TRUE]

setLogLevelDebug(lg) == setLogLevel(lg, JSNumber(LOG_LEVEL["DEBUG"].value))

setLogLevelInfo(lg) == setLogLevel(lg, JSNumber(LOG_LEVEL["INFO"].value))

setLogLevelWarn(lg) == setLogLevel(lg, JSNumber(LOG_LEVEL["WARN"].value))

setLogLevelError(lg) == setLogLevel(lg, JSNumber(LOG_LEVEL["ERROR"].value))

setLogLevelFatal(lg) == setLogLevel(lg, JSNumber(LOG_LEVEL["FATAL"].value))

ErrPropertyNameRequired == "parameter 'propertyName' is required!"
ErrPropertyNotSet == "is either not set or doesn't exist!"
ErrPropertyNotInteger == "is not an integer and therefore is not a valid log level!"
ErrPropertyInvalidLevel == "which is not a valid log level (must be an integer)!"

\* the system properties of the instance that hold log levels, by name
LogLevelProperties ==
    [name \in {"x.log.level", "x.log.custom", "x.log.rows", "x.log.name", "x.log.unset"} |->
        CASE name = "x.log.level"  -> "30000"
          [] name = "x.log.custom" -> "25000"
          [] name = "x.log.rows"   -> "20000 rows"
          [] name = "x.log.name"   -> "verbose"
          [] name = "x.log.unset"  -> ""]

\* gs.getProperty(propertyName, default)
gsGetProperty(propertyName, default) ==
    IF propertyName \in DOMAIN LogLevelProperties
    THEN LogLevelProperties[propertyName]
    ELSE default

\* parseInt(s) for the values the properties hold: the number its leading
\* digits spell, NaN when it begins with none
parseInt(s) ==
    CASE s = "30000" -> 30000
      [] s = "25000" -> 25000
      [] s = "20000 rows" -> 20000
      [] OTHER -> NaN

\* setLogLevelBySysProperty(propertyName)
setLogLevelBySysProperty(lg, propertyName) ==
    IF JSUtilNil(propertyName)
    THEN [lg EXCEPT !.thrown = ErrPropertyNameRequired]
    ELSE LET propVal == gsGetProperty(ToStr(propertyName), "")
             propValInt == parseInt(propVal)
             set == setLogLevel(lg, JSNumber(propValInt))
         IN  IF JSUtilNil(propVal)
             THEN [lg EXCEPT !.thrown = ErrPropertyNotSet]
             ELSE IF propValInt = NaN
             THEN [lg EXCEPT !.thrown = ErrPropertyNotInteger]
             ELSE IF set.thrown # NoError
             THEN [set EXCEPT !.thrown = ErrPropertyInvalidLevel]
             ELSE set

\* a boolean value
JSBoolean(b) == [type |-> "boolean", bool |-> b]

\* a comparison that leaves out the level itself
levelEnabled_Strict(lg, level) ==
    IF lg.currentLevel = Null
    THEN [lg EXCEPT !.thrown = ErrTypeError]
    ELSE [lg EXCEPT !.returned =
             JSBoolean(LOG_LEVEL[lg.currentLevel].value < LOG_LEVEL[level].value)]

\* the comparison this.currentLevel.value <= level.value of the getters
levelEnabled(lg, level) ==
    IF lg.currentLevel = Null
    THEN [lg EXCEPT !.thrown = ErrTypeError]
    ELSE [lg EXCEPT !.returned =
             JSBoolean(LOG_LEVEL[lg.currentLevel].value <= LOG_LEVEL[level].value)]

isDebugLevelEnabled(lg) == levelEnabled(lg, "DEBUG")

isInfoLevelEnabled(lg) == levelEnabled(lg, "INFO")

isWarnLevelEnabled(lg) == levelEnabled(lg, "WARN")

isErrorLevelEnabled(lg) == levelEnabled(lg, "ERROR")

isFatalLevelEnabled(lg) == levelEnabled(lg, "FATAL")

\* initialize()
initialize(lg) == [setLogLevelError(lg) EXCEPT !.stmtQueue = <<>>]

\* setSeparatorChar(val)
setSeparatorChar(lg, val) == [lg EXCEPT !.separatorChar = ToStr(val)]

\* getSeparatorChar()
getSeparatorChar(lg) == lg.separatorChar

\* a _doLog that queues whatever the level
doLog_NoFilter(lg, message, level) ==
    IF lg.currentLevel = Null
    THEN [lg EXCEPT !.thrown = ErrTypeError]
    ELSE [lg EXCEPT !.stmtQueue = Append(lg.stmtQueue,
                                         LOG_LEVEL[level].label \o ": " \o ToStr(message))]

\* _doLog(message, level)
doLog(lg, message, level) ==
    IF lg.currentLevel = Null
    THEN [lg EXCEPT !.thrown = ErrTypeError]
    ELSE IF LOG_LEVEL[lg.currentLevel].value > LOG_LEVEL[level].value
    THEN lg
    ELSE [lg EXCEPT !.stmtQueue = Append(lg.stmtQueue,
                                         LOG_LEVEL[level].label \o ": " \o ToStr(message))]

debug(lg, message) == doLog(lg, message, "DEBUG")

info(lg, message) == doLog(lg, message, "INFO")

warn(lg, message) == doLog(lg, message, "WARN")

error(lg, message) == doLog(lg, message, "ERROR")

fatal(lg, message) == doLog(lg, message, "FATAL")

RECURSIVE ArrayJoin(_, _)

\* Array.prototype.join: the elements with the separator between neighbours
ArrayJoin(arr, sep) ==
    IF Len(arr) = 0
    THEN ""
    ELSE IF Len(arr) = 1
    THEN arr[1]
    ELSE arr[1] \o sep \o ArrayJoin(Tail(arr), sep)

\* _clearStmtQueue()
clearStmtQueue(lg) == [lg EXCEPT !.stmtQueue = <<>>]

\* a flush that joins with a newline whatever the separator
flush_NewlineOnly(lg, joinThrows) ==
    IF joinThrows
    THEN clearStmtQueue(lg)
    ELSE clearStmtQueue([lg EXCEPT !.returned = JSString(ArrayJoin(lg.stmtQueue, "\n"))])

\* a flush without the catch and the finally
flush_Unprotected(lg, joinThrows) ==
    IF joinThrows
    THEN [lg EXCEPT !.thrown = ErrPlatform]
    ELSE clearStmtQueue([lg EXCEPT !.returned =
                            JSString(ArrayJoin(lg.stmtQueue, getSeparatorChar(lg)))])

\* flush(); joinThrows: the join raises an error
flush(lg, joinThrows) ==
    IF joinThrows
    THEN clearStmtQueue(lg)
    ELSE clearStmtQueue([lg EXCEPT !.returned =
                            JSString(ArrayJoin(lg.stmtQueue, getSeparatorChar(lg)))])

\* a new xBufferedLogger()
LoggerInit ==
    LET lg == initialize(LoggerState(Null, Null, "\n"))
    IN  /\ stmtQueue = lg.stmtQueue
        /\ currentLevel = lg.currentLevel
        /\ separatorChar = lg.separatorChar

-----------------------------------------------------------------------------
(* Initial state: a new builder in a session.                              *)

\* update sets present before the builder is used
BaseUpdateSets == {[sys_id |-> "us0", application |-> "global", name |-> "Default"],
                   [sys_id |-> "us1", application |-> "app1", name |-> "Default"]}

\* update sets that may have been created by earlier work
NamedUpdateSets == {[sys_id |-> "us2", application |-> "global", name |-> "Release"],
                    [sys_id |-> "us3", application |-> "app1", name |-> "Release"]}

Init ==
    /\ capturedObjectMap = <<>>
    /\ capturedObjectCount = 0
    /\ sysUpdateSet \in {BaseUpdateSets, BaseUpdateSets \cup NamedUpdateSets}
    /\ currentUpdateSet \in {"us0", "us2"}   \* us2 may be a row that no longer exists
    /\ currentScope \in {"rhino.global", "x_app", "x_gone"}
    /\ lastOp = [op |-> "initialize", arg |-> "", gr |-> NullGR, fault |-> NoFault,
                 val |-> Undefined]
    /\ thrown = NoError
    /\ returned = Undefined
    /\ trace = <<>>
    /\ LoggerInit

\* the state after a builder call that ended in st
Captured(st, op, arg, gr, fault) ==
    /\ capturedObjectMap' = st.map
    /\ capturedObjectCount' = st.count
    /\ thrown' = st.thrown
    /\ returned' = st.returned
    /\ trace' = st.trace
    /\ sysUpdateSet' = st.sets
    /\ currentUpdateSet' = st.current
    /\ lastOp' = [op |-> op, arg |-> arg, gr |-> gr, fault |-> fault, val |-> Undefined]
    /\ UNCHANGED currentScope
    /\ UNCHANGED loggerVars

Start == BuilderState(capturedObjectMap, capturedObjectCount, sysUpdateSet,
                      currentUpdateSet, <<>>, NoError)

\* the GlideRecord objects callers pass in; the row n1 of u_config is also
\* reached through a GlideRecord of the table u_config extends
GlideRecords == {GR("p1", TABLES.SYS_PROPERTIES), GR("a", TABLES.ARCHIVE_RULE),
                 GR("n1", "u_config"), GR("n1", "u_base"), GR("", "u_config")}

RecordObject ==
    /\ Len(capturedObjectMap) < MaxObjects
    /\ \E gr \in GlideRecords \cup {NullGR} :
          Captured(recordObject(Start, gr), "_recordObject", "", gr, NoFault)

\* captureDataRecord(gr)
captureDataRecord(st, gr) ==
    IF gr = NullGR
    THEN Throw(st, ErrNullGR)
    ELSE IF JSUtilNil(gr.tbl)
    THEN Throw(st, ErrNilParam)
    ELSE recordObject(st, gr)

CaptureDataRecord ==
    /\ Len(capturedObjectMap) < MaxObjects
    /\ \E gr \in GlideRecords \cup {NullGR} :
          Captured(captureDataRecord(Start, gr), "captureDataRecord", "", gr, NoFault)

-----------------------------------------------------------------------------
(* Unique lookups.                                                         *)

\* a unique lookup that takes the first row when several match
captureUniqueGRObject_FirstOfMany(st, tbl, field, value) ==
    LET rows == GRQuery(tbl, field, value)
        queried == lookup(st, tbl, value)
    IN  IF Len(rows) >= 1
        THEN recordObject(queried, GR(rows[1], tbl))
        ELSE Throw(queried, ErrNotFound)

\* _captureUniqueGRObject(gr, callingMethod), gr carrying the query tbl.field = value
captureUniqueGRObject(st, tbl, field, value) ==
    LET rows == GRQuery(tbl, field, value)
        rowCount == Len(rows)
        queried == lookup(st, tbl, value)
    IN  IF rowCount = 1
        THEN recordObject(queried, GR(rows[1], tbl))
        ELSE IF rowCount < 1
        THEN Throw(queried, ErrNotFound)
        ELSE Throw(queried, ErrMultiple)

\* a captureSystemProperty that queries without checking its parameter
captureSystemProperty_NoNilCheck(st, propName) ==
    captureUniqueGRObject(st, TABLES.SYS_PROPERTIES, "name", propName)

\* captureSystemProperty(propName)
captureSystemProperty(st, propName) ==
    IF JSUtilNil(propName)
    THEN Throw(st, ErrNilParam)
    ELSE captureUniqueGRObject(st, TABLES.SYS_PROPERTIES, "name", propName)

\* the property names callers pass in
PropNames == {Null, "", "glide.a", "glide.b", "glide.none"}

CaptureSystemProperty ==
    /\ Len(capturedObjectMap) < MaxObjects
    /\ \E propName \in PropNames :
          Captured(captureSystemProperty(Start, propName), "captureSystemProperty",
                   propName, NullGR, NoFault)

-----------------------------------------------------------------------------
(* Archive rules.                                                          *)

RECURSIVE captureArchivalRule(_, _, _)
RECURSIVE archivalRelated(_, _, _, _, _)
RECURSIVE archivalRelated_NoRecursion(_, _, _, _, _)

\* a loop that records the related rows without following their rules
archivalRelated_NoRecursion(st, ruleSysId, rels, i, depth) ==
    IF i > Len(rels)
    THEN st
    ELSE archivalRelated_NoRecursion(recordObject(st, GR(rels[i], TABLES.ARCHIVE_RULE_RELATED)),
                                     ruleSysId, rels, i + 1, depth)

\* the while (rel.next()) loop of captureArchivalRule, from the i-th related row on
archivalRelated(st, ruleSysId, rels, i, depth) ==
    IF i > Len(rels)
    THEN st
    ELSE LET st1 == recordObject(st, GR(rels[i], TABLES.ARCHIVE_RULE_RELATED))
             chld == ToStr(Rows[rels[i]].table_archive_rule)
             st2 == IF ~JSUtilNil(Rows[rels[i]].table_archive_rule) /\ chld # ruleSysId
                    THEN captureArchivalRule(st1, chld, depth + 1)
                    ELSE st1
         IN  IF st2.thrown # NoError
             THEN st2
             ELSE archivalRelated(st2, ruleSysId, rels, i + 1, depth)

\* captureArchivalRule(ruleSysId), called at the given nesting depth
captureArchivalRule(st, ruleSysId, depth) ==
    IF depth > MaxCallDepth
    THEN Throw(st, ErrStackOverflow)
    ELSE IF JSUtilNil(ruleSysId)
    THEN Throw(st, ErrNilParam)
    ELSE LET called == lookup(Log(st, Event("captureArchivalRule", ruleSysId, "")),
                              TABLES.ARCHIVE_RULE, ToStr(ruleSysId))
         IN  IF ~GRGet(TABLES.ARCHIVE_RULE, ToStr(ruleSysId))
             THEN Throw(called, ErrNoArchiveRule)
             ELSE archivalRelated(lookup(recordObject(called, GR(ToStr(ruleSysId), TABLES.ARCHIVE_RULE)),
                                         TABLES.ARCHIVE_RULE_RELATED, ToStr(ruleSysId)),
                                  ToStr(ruleSysId),
                                  GRQuery(TABLES.ARCHIVE_RULE_RELATED, "archive_map", ToStr(ruleSysId)),
                                  1, depth)

\* the rule sys_ids callers pass in
RuleIds == {Null, "a", "b", "c", "d", "zz"}

CaptureArchivalRule ==
    /\ Len(capturedObjectMap) < MaxObjects
    /\ \E ruleSysId \in RuleIds :
          Captured(captureArchivalRule(Start, ruleSysId, 1), "captureArchivalRule",
                   ruleSysId, NullGR, NoFault)

-----------------------------------------------------------------------------
(* Form layouts.                                                           *)

RECURSIVE ToUpperCase(_)

\* String.prototype.toUpperCase
ToUpperCase(str) ==
    LET lower == "abcdefghijklmnopqrstuvwxyz"
        upper == "ABCDEFGHIJKLMNOPQRSTUVWXYZ"
        c == SubSeq(str, 1, 1)
        C == IF \E k \in 1..Len(lower) : SubSeq(lower, k, k) = c
             THEN LET k == CHOOSE k \in 1..Len(lower) : SubSeq(lower, k, k) = c
                  IN  SubSeq(upper, k, k)
             ELSE c
    IN  IF str = "" THEN "" ELSE C \o ToUpperCase(SubSeq(str, 2, Len(str)))

\* String.prototype.startsWith
StartsWith(str, prefix) ==
    Len(str) >= Len(prefix) /\ SubSeq(str, 1, Len(prefix)) = prefix

\* the name of the record a getRefRecord returned
RefName(gr) == IF gr.sys_id \in DOMAIN Rows THEN Rows[gr.sys_id].name ELSE ""

RECURSIVE formSections(_, _, _)

\* the while (frs1.next()) loop, from the i-th form section on
formSections(st, frs1, i) ==
    IF i > Len(frs1)
    THEN st
    ELSE formSections(recordObject(st, getRefRecord(TABLES.FORM_LAYOUT, Rows[frs1[i]].sys_ui_section)),
                      frs1, i + 1)

\* a related-list step that requires the related list to exist
formRelatedList_Required(st, tblName, vwSysId) ==
    LET rel == GRQueryBoth(TABLES.FORM_RELATED_LIST, "name", tblName, "view", vwSysId)
        queried == lookup(st, TABLES.FORM_RELATED_LIST, vwSysId)
    IN  IF Len(rel) >= 1
        THEN recordObject(queried, GR(rel[1], TABLES.FORM_RELATED_LIST))
        ELSE Throw(queried, ErrNotFound)

\* step 3 of the form loop: the related list of the table and the view
formRelatedList(st, tblName, vwSysId) ==
    LET rel == GRQueryBoth(TABLES.FORM_RELATED_LIST, "name", tblName, "view", vwSysId)
        queried == lookup(st, TABLES.FORM_RELATED_LIST, vwSysId)
    IN  IF Len(rel) >= 1
        THEN recordObject(queried, GR(rel[1], TABLES.FORM_RELATED_LIST))
        ELSE Log(queried, Event("warning", vwSysId, tblName))

\* the body of the while (frm.next()) loop for the form frm
formBody(st, tblName, frm) ==
    LET vw == getRefRecord(TABLES.UI_VIEW, Rows[frm].view)
        vwSysId == ToStr(vw.sys_id)
        vwNameUpper == ToUpperCase(ToStr(RefName(vw)))
        frs1 == GRQueryNotNull(TABLES.FORM_SECTION, "sys_ui_form", frm, "sys_ui_section")
    IN  IF StartsWith(vwNameUpper, "RPT")
        THEN st
        ELSE formRelatedList(formSections(lookup(recordObject(st, GR(frm, TABLES.FORM)),
                                                 TABLES.FORM_SECTION, frm),
                                          frs1, 1),
                             tblName, vwSysId)

RECURSIVE formLoop(_, _, _, _)

\* the while (frm.next()) loop, from the i-th form on
formLoop(st, tblName, frms, i) ==
    IF i > Len(frms) \/ st.thrown # NoError
    THEN st
    ELSE formLoop(formBody(st, tblName, frms[i]), tblName, frms, i + 1)

\* captureFormLayoutsForTable(tblName)
captureFormLayoutsForTable(st, tblName) ==
    IF JSUtilNil(tblName)
    THEN Throw(st, ErrNilParam)
    ELSE formLoop(lookup(st, TABLES.FORM, ToStr(tblName)), ToStr(tblName),
                  GRQueryNotNull(TABLES.FORM, "name", ToStr(tblName), "view"),
                  1)

\* the table names callers pass in
TableNames == {Null, "incident", "task", "u_none"}

CaptureFormLayoutsForTable ==
    /\ Len(capturedObjectMap) < MaxObjects
    /\ \E tblName \in TableNames :
          Captured(captureFormLayoutsForTable(Start, tblName), "captureFormLayoutsForTable",
                   tblName, NullGR, NoFault)

-----------------------------------------------------------------------------
(* Catalog variables.                                                      *)

ErrNoCatalogVariable == "No Catalog Variable found for sys_id"

\* if (!varGR.field.nil()) this._recordObject(varGR.field.getRefRecord())
recordReference(st, tbl, ref) ==
    IF JSUtilNil(ref) THEN st ELSE recordObject(st, getRefRecord(tbl, ref))

RECURSIVE captureObjectsFromGRQuery(_, _, _, _)

\* _captureObjectsFromGRQuery(gr): the while (gr.next()) loop over the rows
\* of tbl the query returned, from the i-th on
captureObjectsFromGRQuery(st, tbl, rows, i) ==
    IF i > Len(rows)
    THEN st
    ELSE captureObjectsFromGRQuery(recordObject(st, GR(rows[i], tbl)), tbl, rows, i + 1)

\* a switch that captures the references whatever the type
variableArtifacts_NoTypeCheck(st, varGR) ==
    LET var == Rows[varGR.sys_id]
    IN  recordReference(
          recordReference(
            recordReference(
              recordReference(
                recordReference(st, REF_TABLES.UI_MACRO, var.macro),
                REF_TABLES.UI_MACRO, var.summary_macro),
              REF_TABLES.SP_WIDGET, var.sp_widget),
            REF_TABLES.MACROPONENT, var.macroponent),
          REF_TABLES.UI_PAGE, var.ui_page)

\* the switch ("" + varGR.type) of captureServiceCatalogVariable
variableArtifacts(st, varGR) ==
    LET var == Rows[varGR.sys_id]
        type == ToStr(var.type)
    IN  IF type \in {"14", "17"}
        THEN recordReference(
               recordReference(
                 recordReference(
                   recordReference(st, REF_TABLES.UI_MACRO, var.macro),
                   REF_TABLES.UI_MACRO, var.summary_macro),
                 REF_TABLES.SP_WIDGET, var.sp_widget),
               REF_TABLES.MACROPONENT, var.macroponent)
        ELSE IF type \in {"3", "5"}
        THEN captureObjectsFromGRQuery(
               lookup(st, TABLES.CATALOG_ITEM_VARIABLE_QUESTION_CHOICE, ToStr(varGR.sys_id)),
               TABLES.CATALOG_ITEM_VARIABLE_QUESTION_CHOICE,
               GRQuery(TABLES.CATALOG_ITEM_VARIABLE_QUESTION_CHOICE, "question", ToStr(varGR.sys_id)),
               1)
        ELSE IF type = "15"
        THEN recordReference(st, REF_TABLES.UI_PAGE, var.ui_page)
        ELSE st

\* captureServiceCatalogVariable(varSysId)
captureServiceCatalogVariable(st, varSysId) ==
    IF JSUtilNil(varSysId)
    THEN Throw(st, ErrNilParam)
    ELSE LET varGR == GR(varSysId, TABLES.CATALOG_ITEM_VARIABLE)
             got == lookup(st, TABLES.CATALOG_ITEM_VARIABLE, varSysId)
         IN  IF ~GRGet(TABLES.CATALOG_ITEM_VARIABLE, varSysId)
             THEN Throw(got, ErrNoCatalogVariable)
             ELSE variableArtifacts(recordObject(got, varGR), varGR)

\* the variable sys_ids callers pass in
VariableIds == {Null, "", "cv14", "cv17", "cv3", "cv5", "cv15", "cv1", "zz"}

CaptureServiceCatalogVariable ==
    /\ Len(capturedObjectMap) < MaxObjects
    /\ \E varSysId \in VariableIds :
          Captured(captureServiceCatalogVariable(Start, varSysId),
                   "captureServiceCatalogVariable", varSysId, NullGR, NoFault)

-----------------------------------------------------------------------------
(* List layouts and the UI views they are tied to.                         *)

ErrNoUIView == "No UI View found for sys_id"

\* _captureUIView(sys_id)
captureUIView(st, sys_id) ==
    IF JSUtilNil(sys_id)
    THEN Throw(st, ErrNilParam)
    ELSE IF Falsy(MapGet(st.map, ToStr(sys_id)))
    THEN IF GRGet(TABLES.UI_VIEW, ToStr(sys_id))
         THEN recordObject(lookup(st, TABLES.UI_VIEW, ToStr(sys_id)), GR(ToStr(sys_id), TABLES.UI_VIEW))
         ELSE Throw(lookup(st, TABLES.UI_VIEW, ToStr(sys_id)), ErrNoUIView)
    ELSE st

\* the body of the while (lst.next()) loop for the list layout lst
listBody(st, lst) ==
    LET vw == getRefRecord(TABLES.UI_VIEW, Rows[lst].view)
        vwNameUpper == ToUpperCase(ToStr(RefName(vw)))
        viewed == captureUIView(st, ToStr(vw.sys_id))
    IN  IF StartsWith(vwNameUpper, "RPT")
        THEN st
        ELSE IF viewed.thrown # NoError
        THEN viewed
        ELSE recordObject(viewed, GR(lst, TABLES.LIST_LAYOUT))

RECURSIVE listLoop(_, _, _)

\* the while (lst.next()) loop, from the i-th list layout on
listLoop(st, lsts, i) ==
    IF i > Len(lsts) \/ st.thrown # NoError
    THEN st
    ELSE listLoop(listBody(st, lsts[i]), lsts, i + 1)

\* captureListLayoutsForTable(tblName)
captureListLayoutsForTable(st, tblName) ==
    IF JSUtilNil(tblName)
    THEN Throw(st, ErrNilParam)
    ELSE LET listed == listLoop(lookup(st, TABLES.LIST_LAYOUT, ToStr(tblName)),
                                GRQueryNulls(TABLES.LIST_LAYOUT, "name", ToStr(tblName), "view",
                                             "sys_user", "relationship"),
                                1)
         IN  IF listed.thrown # NoError
             THEN listed
             ELSE captureObjectsFromGRQuery(lookup(listed, TABLES.LIST_CONTROL, ToStr(tblName)),
                                            TABLES.LIST_CONTROL,
                                            GRQuery(TABLES.LIST_CONTROL, "name", ToStr(tblName)),
                                            1)

CaptureListLayoutsForTable ==
    /\ Len(capturedObjectMap) < MaxObjects
    /\ \E tblName \in TableNames :
          Captured(captureListLayoutsForTable(Start, tblName), "captureListLayoutsForTable",
                   tblName, NullGR, NoFault)

-----------------------------------------------------------------------------
(* writeUpdateSet.                                                         *)

\* a _getCurrentScopeName that passes on the name the platform reports
getCurrentScopeName_Raw(scp) == scp

\* _getCurrentScopeName()
getCurrentScopeName(scp) == IF scp = "rhino.global" THEN "global" ELSE scp

\* GlideUpdateSet.set(sys_id)
gusSet(st, sys_id) == Log([st EXCEPT !.current = sys_id], Event("set", sys_id, ""))

\* GlideUpdateManager2.saveRecord(gr): writes the record to the current update set
umSaveRecord(st, sys_id) == Log(st, Event("saveRecord", sys_id, st.current))

\* a flush that forgets the counter
flushObjectCache_KeepCount(st) == Log([st EXCEPT !.map = <<>>], Event("flush", "", ""))

\* _flushObjectCache()
flushObjectCache(st) == Log([st EXCEPT !.map = <<>>, !.count = 0], Event("flush", "", ""))

\* the sys_id the platform gives a row inserted into sys_update_set
NewSysId(sets) ==
    LET pool == <<"us4", "us5", "us6", "us7">>
        used == {u.sys_id : u \in sets}
    IN  pool[CHOOSE i \in 1..Len(pool) :
                /\ pool[i] \notin used
                /\ \A j \in 1..(i - 1) : pool[j] \in used]

\* a query that leaves out the scope
findUpdateSet_AnyScope(sets, currentScopeSysId, updateSetName) ==
    {u \in sets : u.name = updateSetName}

\* the sys_update_set rows the query application = scope, name = updateSetName returns
findUpdateSet(sets, currentScopeSysId, updateSetName) ==
    {u \in sets : u.application = currentScopeSysId /\ u.name = updateSetName}

\* new GlideRecord(tblName).get("" + sys_id) for the i-th entry of the queue
writeLookup(st, i) == Log(st, Event("get", st.map[i].sys_id, st.map[i].tbl))

\* a loop body that throws when the entry does not resolve
writeEntry_ThrowOnMissing(st, i) ==
    IF GRGet(st.map[i].tbl, ToStr(st.map[i].sys_id))
    THEN umSaveRecord(writeLookup(st, i), st.map[i].sys_id)
    ELSE Throw(writeLookup(st, i), ErrPlatform)

\* a loop body that writes the entry whether or not it resolves
writeEntry_SaveUnresolved(st, i) == umSaveRecord(writeLookup(st, i), st.map[i].sys_id)

\* the body of the for (sys_id in this._capturedObjectMap) loop, for the i-th entry
writeEntry(st, i) ==
    IF GRGet(st.map[i].tbl, ToStr(st.map[i].sys_id))
    THEN umSaveRecord(writeLookup(st, i), st.map[i].sys_id)
    ELSE writeLookup(st, i)

RECURSIVE writeLoop(_, _, _)

\* the for (sys_id in this._capturedObjectMap) loop from the i-th entry on;
\* the platform call made for entry faultAt throws
writeLoop(st, i, faultAt) ==
    IF i > Len(st.map) \/ st.thrown # NoError
    THEN st
    ELSE IF faultAt = i
    THEN Throw(writeLookup(st, i), ErrPlatform)
    ELSE writeLoop(writeEntry(st, i), i + 1, faultAt)

\* a try block that writes without switching to the update set
writeTry_NoSwitch(st, usSysId, faultAt) ==
    IF faultAt = 0
    THEN Throw(st, ErrPlatform)
    ELSE writeLoop(st, 1, faultAt)

\* the try block of writeUpdateSet; gus.set throws when faultAt = 0
writeTry(st, usSysId, faultAt) ==
    IF faultAt = 0
    THEN Throw(st, ErrPlatform)
    ELSE writeLoop(gusSet(st, ToStr(usSysId)), 1, faultAt)

\* a catch block that lets the error go on to the caller
writeCatch_Rethrow(st) == st

\* the catch block of writeUpdateSet
writeCatch(st) ==
    IF st.thrown # NoError
    THEN [Log(st, Event("catch", "", st.thrown)) EXCEPT !.thrown = NoError]
    ELSE st

\* a finally block that does not switch back
writeFinally_NoRestore(st, currUpdateSetSysId) == flushObjectCache(st)

\* the finally block of writeUpdateSet
writeFinally(st, currUpdateSetSysId) ==
    LET back == gusSet(flushObjectCache(st), currUpdateSetSysId)
    IN  IF back.current # currUpdateSetSysId
        THEN Log(back, Event("warning", currUpdateSetSysId, ""))
        ELSE back

\* a writeUpdateSet that finds or creates the update set before it checks the
\* session's current update set
writeUpdateSet_CreateFirst(st, updateSetName, scp, faultAt) ==
    IF JSUtilNil(updateSetName)
    THEN Throw(st, ErrNilParam)
    ELSE LET sn == getCurrentScopeName(scp)
             scopes == {r \in ScopeRows : r.name = sn}
         IN  IF JSUtilNil(sn)
             THEN Throw(st, ErrNoScopeName)
             ELSE IF scopes = {}
             THEN Throw(lookup(st, TABLES.SYS_SCOPE, sn), ErrNoScope)
             ELSE LET currentScopeSysId == ToStr((CHOOSE r \in scopes : TRUE).sys_id)
                      currUpdateSetSysId == st.current
                      checked == lookup(lookup(st, TABLES.SYS_SCOPE, sn),
                                        TABLES.UPDATE_SET, currUpdateSetSysId)
                      looked == lookup(checked, TABLES.UPDATE_SET, updateSetName)
                      found == findUpdateSet(st.sets, currentScopeSysId, updateSetName)
                      created == [sys_id |-> NewSysId(st.sets),
                                  application |-> currentScopeSysId,
                                  name |-> updateSetName]
                      usGR == IF found = {}
                              THEN created
                              ELSE CHOOSE u \in found : TRUE
                      resolved == IF found = {}
                                  THEN Log([looked EXCEPT !.sets = st.sets \cup {created}],
                                           Event("insert", created.sys_id, ""))
                                  ELSE looked
                  IN  IF ~(\E u \in st.sets : u.sys_id = currUpdateSetSysId)
                      THEN Throw(resolved, ErrNoCurrentUpdateSet)
                      ELSE writeFinally(writeCatch(writeTry(resolved, usGR.sys_id, faultAt)),
                                        currUpdateSetSysId)

\* writeUpdateSet(updateSetName) in a session whose scope is scp
writeUpdateSet(st, updateSetName, scp, faultAt) ==
    IF JSUtilNil(updateSetName)
    THEN Throw(st, ErrNilParam)
    ELSE LET sn == getCurrentScopeName(scp)
             scopes == {r \in ScopeRows : r.name = sn}
         IN  IF JSUtilNil(sn)
             THEN Throw(st, ErrNoScopeName)
             ELSE IF scopes = {}
             THEN Throw(lookup(st, TABLES.SYS_SCOPE, sn), ErrNoScope)
             ELSE LET currentScopeSysId == ToStr((CHOOSE r \in scopes : TRUE).sys_id)
                      currUpdateSetSysId == st.current
                      checked == lookup(lookup(st, TABLES.SYS_SCOPE, sn),
                                        TABLES.UPDATE_SET, currUpdateSetSysId)
                      looked == lookup(checked, TABLES.UPDATE_SET, updateSetName)
                      found == findUpdateSet(st.sets, currentScopeSysId, updateSetName)
                      created == [sys_id |-> NewSysId(st.sets),
                                  application |-> currentScopeSysId,
                                  name |-> updateSetName]
                      usGR == IF found = {}
                              THEN created
                              ELSE CHOOSE u \in found : TRUE
                      resolved == IF found = {}
                                  THEN Log([looked EXCEPT !.sets = st.sets \cup {created}],
                                           Event("insert", created.sys_id, ""))
                                  ELSE looked
                  IN  IF ~(\E u \in st.sets : u.sys_id = currUpdateSetSysId)
                      THEN Throw(checked, ErrNoCurrentUpdateSet)
                      ELSE writeFinally(writeCatch(writeTry(resolved, usGR.sys_id, faultAt)),
                                        currUpdateSetSysId)

\* the update set names callers pass in
UpdateSetNames == {Null, "", "Release", "Hotfix"}

WriteUpdateSet ==
    \E updateSetName \in UpdateSetNames :
       \E faultAt \in {NoFault} \cup (0..Len(capturedObjectMap)) :
          Captured(writeUpdateSet(Start, updateSetName, currentScope, faultAt),
                   "writeUpdateSet", updateSetName, NullGR, faultAt)

\* getObjectCount()
getObjectCount(st) == [st EXCEPT !.returned = JSNumber(st.count)]

GetObjectCount ==
    Captured(getObjectCount(Start), "getObjectCount", "", NullGR, NoFault)

Next ==
    \/ RecordObject
    \/ CaptureDataRecord
    \/ CaptureSystemProperty
    \/ CaptureArchivalRule
    \/ WriteUpdateSet
    \/ GetObjectCount

Spec == Init /\ [][Next]_vars

-----------------------------------------------------------------------------
(* The composite captures and writeUpdateSet, in a session of the global   *)
(* scope.                                                                  *)

InitComposite ==
    /\ Init
    /\ sysUpdateSet = BaseUpdateSets
    /\ currentUpdateSet = "us0"
    /\ currentScope = "rhino.global"

NextComposite ==
    \/ CaptureFormLayoutsForTable
    \/ CaptureListLayoutsForTable
    \/ CaptureServiceCatalogVariable
    \/ WriteUpdateSet
    \/ GetObjectCount

SpecComposite == InitComposite /\ [][NextComposite]_vars

-----------------------------------------------------------------------------
(* Operations that capture a record with the records related to it, and    *)
(* the lookups that depend on the session's scope.                         *)

ErrNoTable == "no table named"

\* _captureUniqueGRObject(gr, callingMethod), gr carrying two addQuery conditions
captureUniqueGRObjectBoth(st, tbl, field1, value1, field2, value2) ==
    LET rows == GRQueryBoth(tbl, field1, value1, field2, value2)
        rowCount == Len(rows)
        queried == lookup(st, tbl, field1 \o "=" \o value1 \o "^" \o field2 \o "=" \o value2)
    IN  IF rowCount = 1
        THEN recordObject(queried, GR(rows[1], tbl))
        ELSE IF rowCount < 1
        THEN Throw(queried, ErrNotFound)
        ELSE Throw(queried, ErrMultiple)

\* captureScriptIncludeByName(scrName) in a session whose scope is scp
captureScriptIncludeByName(st, scrName, scp) ==
    IF JSUtilNil(scrName)
    THEN Throw(st, ErrNilParam)
    ELSE LET apiName == getCurrentScopeName(scp) \o "." \o scrName
         IN  captureUniqueGRObject(st, TABLES.SCRIPT_INCLUDE, "api_name", apiName)

\* captureUserRole(roleName) in a session whose scope is scp
captureUserRole(st, roleName, scp) ==
    IF JSUtilNil(roleName)
    THEN Throw(st, ErrNilParam)
    ELSE captureUniqueGRObjectBoth(st, TABLES.ROLE, "sys_scope", getCurrentScopeName(scp),
                                   "name", ToStr(roleName))

RECURSIVE assocLoop(_, _, _)
RECURSIVE assocLoop_DiscardOnError(_, _, _)

\* a loop that empties the queue when the lookup of a property fails
assocLoop_DiscardOnError(st, assocs, i) ==
    IF i > Len(assocs)
    THEN st
    ELSE LET prop == getRefRecord(TABLES.SYS_PROPERTIES, Rows[assocs[i]].property)
             captured == captureSystemProperty(st, ToStr(RefName(prop)))
         IN  IF captured.thrown # NoError
             THEN [captured EXCEPT !.map = <<>>, !.count = 0]
             ELSE assocLoop_DiscardOnError(
                      recordObject(captured, GR(assocs[i], TABLES.SYS_PROPERTIES_CATEGORY_ASSOC)),
                      assocs, i + 1)

\* the while (assoc.next()) loop, from the i-th association on
assocLoop(st, assocs, i) ==
    IF i > Len(assocs)
    THEN st
    ELSE LET prop == getRefRecord(TABLES.SYS_PROPERTIES, Rows[assocs[i]].property)
             captured == captureSystemProperty(st, ToStr(RefName(prop)))
         IN  IF captured.thrown # NoError
             THEN captured
             ELSE assocLoop(recordObject(captured, GR(assocs[i], TABLES.SYS_PROPERTIES_CATEGORY_ASSOC)),
                            assocs, i + 1)

\* captureSystemPropertyCategoryWithAssociations(catName)
captureSystemPropertyCategoryWithAssociations(st, catName) ==
    IF JSUtilNil(catName)
    THEN Throw(st, ErrNilParam)
    ELSE LET cat == captureUniqueGRObject(st, TABLES.SYS_PROPERTIES_CATEGORY, "name", catName)
         IN  IF cat.thrown # NoError
             THEN cat
             ELSE LET catSysId == GRQuery(TABLES.SYS_PROPERTIES_CATEGORY, "name", catName)[1]
                  IN  assocLoop(lookup(cat, TABLES.SYS_PROPERTIES_CATEGORY_ASSOC, catSysId),
                                GRQueryNotNull(TABLES.SYS_PROPERTIES_CATEGORY_ASSOC, "category",
                                               catSysId, "property"),
                                1)

RECURSIVE aclLoop(_, _, _)
RECURSIVE aclLoop_AllRoles(_, _, _)

\* a loop that captures the role rows of every ACL
aclLoop_AllRoles(st, acls, i) ==
    IF i > Len(acls)
    THEN st
    ELSE aclLoop_AllRoles(
             captureObjectsFromGRQuery(
                 lookup(recordObject(st, GR(acls[i], TABLES.SYS_SECURITY_ACL)),
                        TABLES.SYS_SECURITY_ACL_ROLE, acls[i]),
                 TABLES.SYS_SECURITY_ACL_ROLE, GRQueryAll(TABLES.SYS_SECURITY_ACL_ROLE), 1),
             acls, i + 1)

\* the while (acl.next()) loop, from the i-th ACL on
aclLoop(st, acls, i) ==
    IF i > Len(acls)
    THEN st
    ELSE aclLoop(captureObjectsFromGRQuery(
                     lookup(recordObject(st, GR(acls[i], TABLES.SYS_SECURITY_ACL)),
                            TABLES.SYS_SECURITY_ACL_ROLE, acls[i]),
                     TABLES.SYS_SECURITY_ACL_ROLE,
                     GRQuery(TABLES.SYS_SECURITY_ACL_ROLE, "sys_security_acl", acls[i]), 1),
                 acls, i + 1)

\* captureACLsForTable(tblName)
captureACLsForTable(st, tblName) ==
    IF JSUtilNil(tblName)
    THEN Throw(st, ErrNilParam)
    ELSE LET checked == lookup(st, TABLES.SYS_DB_OBJECT, ToStr(tblName))
         IN  IF GRQuery(TABLES.SYS_DB_OBJECT, "name", ToStr(tblName)) = <<>>
             THEN Throw(checked, ErrNoTable)
             ELSE aclLoop(lookup(checked, TABLES.SYS_SECURITY_ACL, ToStr(tblName)),
                          GRQuery(TABLES.SYS_SECURITY_ACL, "name", ToStr(tblName)), 1)

RECURSIVE uiPolicyLoop(_, _, _)

\* the while (ui.next()) loop, from the i-th UI policy on
uiPolicyLoop(st, uis, i) ==
    IF i > Len(uis)
    THEN st
    ELSE uiPolicyLoop(captureObjectsFromGRQuery(
                          lookup(recordObject(st, GR(uis[i], TABLES.UI_POLICY)),
                                 TABLES.UI_POLICY_ACTION, uis[i]),
                          TABLES.UI_POLICY_ACTION,
                          GRQuery(TABLES.UI_POLICY_ACTION, "ui_policy", uis[i]), 1),
                      uis, i + 1)

\* captureUIPolicesForTable(tblName)
captureUIPolicesForTable(st, tblName) ==
    IF JSUtilNil(tblName)
    THEN Throw(st, ErrNilParam)
    ELSE LET checked == lookup(st, TABLES.SYS_DB_OBJECT, ToStr(tblName))
         IN  IF GRQuery(TABLES.SYS_DB_OBJECT, "name", ToStr(tblName)) = <<>>
             THEN Throw(checked, ErrNoTable)
             ELSE uiPolicyLoop(lookup(checked, TABLES.UI_POLICY, ToStr(tblName)),
                               GRQuery(TABLES.UI_POLICY, "table", ToStr(tblName)), 1)

\* the script include, role and category names callers pass in
ScriptNames == {Null, "Util", "Helper"}

RoleNames == {Null, "u_admin", "u_none"}

CategoryNames == {Null, "Cat A", "Cat B", "Cat Z"}

CaptureScriptIncludeByName ==
    /\ Len(capturedObjectMap) < MaxObjects
    /\ \E scrName \in ScriptNames :
          Captured(captureScriptIncludeByName(Start, scrName, currentScope),
                   "captureScriptIncludeByName", scrName, NullGR, NoFault)

CaptureUserRole ==
    /\ Len(capturedObjectMap) < MaxObjects
    /\ \E roleName \in RoleNames :
          Captured(captureUserRole(Start, roleName, currentScope),
                   "captureUserRole", roleName, NullGR, NoFault)

CaptureSystemPropertyCategoryWithAssociations ==
    /\ Len(capturedObjectMap) < MaxObjects
    /\ \E catName \in CategoryNames :
          Captured(captureSystemPropertyCategoryWithAssociations(Start, catName),
                   "captureSystemPropertyCategoryWithAssociations", catName, NullGR, NoFault)

CaptureACLsForTable ==
    /\ Len(capturedObjectMap) < MaxObjects
    /\ \E tblName \in TableNames :
          Captured(captureACLsForTable(Start, tblName), "captureACLsForTable",
                   tblName, NullGR, NoFault)

CaptureUIPolicesForTable ==
    /\ Len(capturedObjectMap) < MaxObjects
    /\ \E tblName \in TableNames :
          Captured(captureUIPolicesForTable(Start, tblName), "captureUIPolicesForTable",
                   tblName, NullGR, NoFault)

\* a builder in a session of any scope, with the update sets of a new instance
InitRelated ==
    /\ Init
    /\ sysUpdateSet = BaseUpdateSets
    /\ currentUpdateSet = "us0"

NextRelated ==
    \/ CaptureScriptIncludeByName
    \/ CaptureUserRole
    \/ CaptureSystemPropertyCategoryWithAssociations
    \/ CaptureACLsForTable
    \/ CaptureUIPolicesForTable
    \/ WriteUpdateSet
    \/ GetObjectCount

SpecRelated == InitRelated /\ [][NextRelated]_vars

-----------------------------------------------------------------------------
(* xBufferedLogger: one action per method of a logger.                     *)

\* what the logger's calls leave alone
builderVars == <<capturedObjectMap, capturedObjectCount, sysUpdateSet, currentUpdateSet,
                 currentScope, trace>>

\* the state after a logger call that ended in lg
Logged(lg, op, arg, val, fault) ==
    /\ stmtQueue' = lg.stmtQueue
    /\ currentLevel' = lg.currentLevel
    /\ separatorChar' = lg.separatorChar
    /\ thrown' = lg.thrown
    /\ returned' = lg.returned
    /\ lastOp' = [op |-> op, arg |-> arg, gr |-> NullGR, fault |-> fault, val |-> val]
    /\ UNCHANGED builderVars

LoggerStart == LoggerState(stmtQueue, currentLevel, separatorChar)

\* the messages callers log
Messages == {"a", "b"}

\* the values callers pass to setLogLevel
LevelInputs == {JSNull, Undefined, JSNumber(10000), JSNumber(20000), JSNumber(30000),
                JSNumber(40000), JSNumber(50000), JSNumber(25000),
                JSString("40000"), JSString("verbose")}

\* the values callers pass to setSeparatorChar
SeparatorInputs == {"<br />", Null}

Debug ==
    /\ Len(stmtQueue) < MaxQueue
    /\ \E message \in Messages : Logged(debug(LoggerStart, message), "debug", message, Undefined, NoFault)

Info ==
    /\ Len(stmtQueue) < MaxQueue
    /\ \E message \in Messages : Logged(info(LoggerStart, message), "info", message, Undefined, NoFault)

Warn ==
    /\ Len(stmtQueue) < MaxQueue
    /\ \E message \in Messages : Logged(warn(LoggerStart, message), "warn", message, Undefined, NoFault)

Error ==
    /\ Len(stmtQueue) < MaxQueue
    /\ \E message \in Messages : Logged(error(LoggerStart, message), "error", message, Undefined, NoFault)

Fatal ==
    /\ Len(stmtQueue) < MaxQueue
    /\ \E message \in Messages : Logged(fatal(LoggerStart, message), "fatal", message, Undefined, NoFault)

\* flush(); the join may raise an error
Flush ==
    \E joinThrows \in BOOLEAN :
       Logged(flush(LoggerStart, joinThrows), "flush", "", Undefined,
              IF joinThrows THEN 0 ELSE NoFault)

SetLogLevel ==
    \E logLevelVal \in LevelInputs :
       Logged(setLogLevel(LoggerStart, logLevelVal), "setLogLevel", "", logLevelVal, NoFault)

SetLogLevelDebug == Logged(setLogLevelDebug(LoggerStart), "setLogLevelDebug", "", Undefined, NoFault)

SetLogLevelInfo == Logged(setLogLevelInfo(LoggerStart), "setLogLevelInfo", "", Undefined, NoFault)

SetLogLevelWarn == Logged(setLogLevelWarn(LoggerStart), "setLogLevelWarn", "", Undefined, NoFault)

SetLogLevelError == Logged(setLogLevelError(LoggerStart), "setLogLevelError", "", Undefined, NoFault)

SetLogLevelFatal == Logged(setLogLevelFatal(LoggerStart), "setLogLevelFatal", "", Undefined, NoFault)

SetSeparatorChar ==
    \E val \in SeparatorInputs :
       Logged(setSeparatorChar(LoggerStart, val), "setSeparatorChar", val, Undefined, NoFault)

\* the property names callers pass to setLogLevelBySysProperty
PropertyNames == {Null, "x.log.level", "x.log.custom", "x.log.rows", "x.log.name",
                  "x.log.unset", "x.log.none"}

SetLogLevelBySysProperty ==
    \E propertyName \in PropertyNames :
       Logged(setLogLevelBySysProperty(LoggerStart, propertyName), "setLogLevelBySysProperty",
              propertyName, Undefined, NoFault)

IsDebugLevelEnabled ==
    Logged(isDebugLevelEnabled(LoggerStart), "isDebugLevelEnabled", "", Undefined, NoFault)

IsInfoLevelEnabled ==
    Logged(isInfoLevelEnabled(LoggerStart), "isInfoLevelEnabled", "", Undefined, NoFault)

IsWarnLevelEnabled ==
    Logged(isWarnLevelEnabled(LoggerStart), "isWarnLevelEnabled", "", Undefined, NoFault)

IsErrorLevelEnabled ==
    Logged(isErrorLevelEnabled(LoggerStart), "isErrorLevelEnabled", "", Undefined, NoFault)

IsFatalLevelEnabled ==
    Logged(isFatalLevelEnabled(LoggerStart), "isFatalLevelEnabled", "", Undefined, NoFault)

\* a new logger; the builder is not used
InitLogger ==
    /\ Init
    /\ sysUpdateSet = BaseUpdateSets
    /\ currentUpdateSet = "us0"
    /\ currentScope = "rhino.global"

NextLogger ==
    \/ Debug
    \/ Info
    \/ Warn
    \/ Error
    \/ Fatal
    \/ Flush
    \/ SetLogLevel
    \/ SetLogLevelDebug
    \/ SetLogLevelInfo
    \/ SetLogLevelWarn
    \/ SetLogLevelError
    \/ SetLogLevelFatal
    \/ SetSeparatorChar
    \/ SetLogLevelBySysProperty
    \/ IsDebugLevelEnabled
    \/ IsInfoLevelEnabled
    \/ IsWarnLevelEnabled
    \/ IsErrorLevelEnabled
    \/ IsFatalLevelEnabled

SpecLogger == InitLogger /\ [][NextLogger]_vars

-----------------------------------------------------------------------------
(* Vocabulary of the properties.                                           *)

CaptureOps == {"_recordObject", "captureDataRecord", "captureSystemProperty",
               "captureArchivalRule", "captureFormLayoutsForTable",
               "captureServiceCatalogVariable", "captureListLayoutsForTable",
               "captureScriptIncludeByName", "captureUserRole",
               "captureSystemPropertyCategoryWithAssociations", "captureACLsForTable",
               "captureUIPolicesForTable"}

\* the positions of the events of one kind in a trace
At(tr, ev) == {j \in 1..Len(tr) : tr[j].ev = ev}

\* the update set a commit switched to: the target of its first set call
Target(tr) == tr[CHOOSE j \in At(tr, "set") : \A k \in At(tr, "set") : j <= k].id

\* the entries of a queue that can be re-resolved by identifier and container
Resolvable(map) ==
    {i \in 1..Len(map) : \E id \in DOMAIN Rows : id = map[i].sys_id /\ Rows[id].tbl = map[i].tbl}

\* the sys_id of the sys_scope row of the session's scope
ScopeSysId(scp) == IF scp = "x_app" THEN "app1" ELSE "global"

-----------------------------------------------------------------------------
C3_UnresolvedEntrySkipped ==
    [][lastOp'.op = "writeUpdateSet" /\ thrown' = NoError =>
          /\ \A j \in At(trace', "get") :
                /\ ~(\E id \in DOMAIN Rows : id = trace'[j].id /\ Rows[id].tbl = trace'[j].arg)
                /\ Cardinality({k \in At(trace', "get") : k <= j}) # lastOp'.fault
                => trace'[j + 1].ev \in {"get", "flush"}
          /\ lastOp'.fault = NoFault =>
                /\ At(trace', "catch") = {}
                /\ Cardinality(At(trace', "get")) = Len(capturedObjectMap)
                /\ \A i \in 1..Len(capturedObjectMap) :
                      i \in Resolvable(capturedObjectMap) <=>
                         \E j \in At(trace', "saveRecord") :
                            /\ trace'[j].id = capturedObjectMap[i].sys_id
                            /\ trace'[j].arg = Target(trace')
                /\ Cardinality(At(trace', "saveRecord"))
                      = Cardinality(Resolvable(capturedObjectMap))]_vars

\* a commit of three entries, one of which did not resolve: two were written
C3_Witness ==
    /\ lastOp.op = "writeUpdateSet"
    /\ lastOp.fault = NoFault
    /\ At(trace, "catch") = {}
    /\ Cardinality(At(trace, "get")) = 3
    /\ Cardinality(At(trace, "saveRecord")) = 2

\* C4 (as claimed): when the platform raises an error for one entry, every
\* entry of the queue is still attempted and every other entry that resolves
\* is written.
C4_LoopSurvivesEntryError ==
    [][lastOp'.op = "writeUpdateSet" /\ thrown' = NoError /\ lastOp'.fault >= 1 =>
          /\ \A i \in 1..Len(capturedObjectMap) :
                \E j \in At(trace', "get") : trace'[j].id = capturedObjectMap[i].sys_id
          /\ Cardinality(At(trace', "saveRecord"))
                >= Cardinality(Resolvable(capturedObjectMap)) - 1]_vars

\* C5: a capture operation only queues: it makes no write to an update set,
\* creates no update set and leaves the session's current update set alone.
C5_CaptureOnlyQueues ==
    [][lastOp'.op \in CaptureOps =>
          /\ sysUpdateSet' = sysUpdateSet
          /\ currentUpdateSet' = currentUpdateSet
          /\ \A j \in 1..Len(trace') : trace'[j].ev \notin {"saveRecord", "insert", "set"}]_vars

\* a recursive capture that queued several objects
C5_Witness ==
    /\ lastOp.op = "captureArchivalRule"
    /\ lastOp.arg = "c"
    /\ {"c", "r3", "r4"} \subseteq MapKeys(capturedObjectMap)

\* C6: recording an identifier that is already queued changes neither the
\* queue nor the count; recording a new one adds one entry and 1 to the
\* count; the queue never holds two entries for one identifier.
C6_RecordIdempotent ==
    [][lastOp'.op \in {"_recordObject", "captureDataRecord"} /\ lastOp'.gr # NullGR =>
          LET id == lastOp'.gr.sys_id
          IN  /\ id \in MapKeys(capturedObjectMap) =>
                    /\ capturedObjectMap' = capturedObjectMap
                    /\ capturedObjectCount' = capturedObjectCount
              /\ id \notin MapKeys(capturedObjectMap) /\ ~JSUtilNil(id) =>
                    /\ capturedObjectCount' = capturedObjectCount + 1
                    /\ Len(capturedObjectMap') = Len(capturedObjectMap) + 1
              /\ Cardinality({i \in 1..Len(capturedObjectMap') :
                                 capturedObjectMap'[i].sys_id = id}) <= 1]_vars

\* p1 was recorded last although a later entry follows it in the queue: it
\* was recorded before, and there is one entry for it
C6_Witness ==
    /\ lastOp.op \in {"_recordObject", "captureDataRecord"}
    /\ lastOp.gr.sys_id = "p1"
    /\ Len(capturedObjectMap) = 2
    /\ capturedObjectMap[1].sys_id = "p1"
    /\ capturedObjectCount = 2

\* C7 (as claimed): recording an object whose identifier is null or empty
\* does not throw and changes neither the queue nor the count.
C7_NilIdentifierIgnored ==
    [][/\ lastOp'.op \in {"_recordObject", "captureDataRecord"}
       /\ lastOp'.gr # NullGR
       /\ JSUtilNil(lastOp'.gr.sys_id)
       => /\ thrown' = NoError
          /\ capturedObjectMap' = capturedObjectMap
          /\ capturedObjectCount' = capturedObjectCount]_vars

\* C8 (as claimed): captureArchivalRule terminates, having visited each rule
\* at most once, also when the rules refer to each other in a cycle.
C8_ArchivalRuleTerminates ==
    lastOp.op = "captureArchivalRule" =>
       /\ thrown # ErrStackOverflow
       /\ \A j, k \in At(trace, "captureArchivalRule") : trace[j].id = trace[k].id => j = k

\* C9: a unique lookup records the matching row exactly when one row
\* matches; with no match it throws the not-found error, with several the
\* found-multiple error, and then the queue and the count are unchanged.
C9_UniqueLookup ==
    [][lastOp'.op = "captureSystemProperty" /\ ~JSUtilNil(lastOp'.arg) =>
          LET matches == {id \in DOMAIN Rows : Rows[id].tbl = TABLES.SYS_PROPERTIES
                                               /\ Rows[id].name = lastOp'.arg}
              unchanged == /\ capturedObjectMap' = capturedObjectMap
                           /\ capturedObjectCount' = capturedObjectCount
          IN  /\ Cardinality(matches) = 1 =>
                    /\ thrown' = NoError
                    /\ MapKeys(capturedObjectMap') = MapKeys(capturedObjectMap) \cup matches
              /\ Cardinality(matches) = 0 => thrown' = ErrNotFound /\ unchanged
              /\ Cardinality(matches) > 1 => thrown' = ErrMultiple /\ unchanged]_vars

\* a lookup that matched two rows and left a non-empty queue as it was
C9_Witness ==
    /\ lastOp.op = "captureSystemProperty"
    /\ lastOp.arg = "glide.b"
    /\ thrown = ErrMultiple
    /\ MapKeys(capturedObjectMap) = {"p1"}

\* C10: writeUpdateSet switches to the update set of the given name in the
\* session's scope when there is one and creates no update set then; it
\* creates one, with that name and scope, only when there is none; there is
\* never more than one update set per scope and name, and exactly one for
\* the name and scope of a call that returned.
C10_UpdateSetReused ==
    /\ [][lastOp'.op = "writeUpdateSet" /\ thrown' = NoError =>
             LET scopeSysId == ScopeSysId(currentScope)
                 named(sets) == {u \in sets : u.application = scopeSysId
                                              /\ u.name = lastOp'.arg}
             IN  /\ named(sysUpdateSet) # {} =>
                       /\ sysUpdateSet' = sysUpdateSet
                       /\ At(trace', "insert") = {}
                 /\ named(sysUpdateSet) = {} =>
                       /\ Cardinality(sysUpdateSet' \ sysUpdateSet) = 1
                       /\ sysUpdateSet \subseteq sysUpdateSet'
                       /\ \A u \in sysUpdateSet' \ sysUpdateSet :
                             u.sys_id \notin {v.sys_id : v \in sysUpdateSet}
                 /\ Cardinality(named(sysUpdateSet')) = 1
                 /\ Cardinality(At(trace', "set")) = 2 =>
                       Target(trace') \in {u.sys_id : u \in named(sysUpdateSet')}]_vars
    /\ [](\A u, v \in sysUpdateSet :
             u.application = v.application /\ u.name = v.name => u = v)

\* a call for "Hotfix" that found the update set an earlier call had created
C10_Witness ==
    /\ lastOp.op = "writeUpdateSet"
    /\ lastOp.arg = "Hotfix"
    /\ thrown = NoError
    /\ At(trace, "insert") = {}
    /\ At(trace, "saveRecord") # {}
\* the calls that read or change the record store or the session
StoreCalls == {"lookup", "get", "saveRecord", "set", "insert"}

\* a call of a public operation with a required parameter that is nil
NilCall(op) ==
    \/ /\ op.op \in {"writeUpdateSet", "captureSystemProperty", "captureArchivalRule",
                     "captureServiceCatalogVariable", "captureFormLayoutsForTable",
                     "captureListLayoutsForTable", "captureScriptIncludeByName",
                     "captureUserRole", "captureSystemPropertyCategoryWithAssociations",
                     "captureACLsForTable", "captureUIPolicesForTable"}
       /\ JSUtilNil(op.arg)
    \/ op.op = "captureDataRecord" /\ (op.gr = NullGR \/ JSUtilNil(op.gr.tbl))

\* C11: a public operation called with a nil required parameter throws the
\* invalid-argument error before it reads the record store, and leaves the
\* queue, the count, the update sets and the current update set unchanged.
C11_NilParameterFailsFast ==
    [][NilCall(lastOp') =>
          /\ thrown' \in {ErrNilParam, ErrNullGR}
          /\ \A j \in 1..Len(trace') : trace'[j].ev \notin StoreCalls
          /\ capturedObjectMap' = capturedObjectMap
          /\ capturedObjectCount' = capturedObjectCount
          /\ sysUpdateSet' = sysUpdateSet
          /\ currentUpdateSet' = currentUpdateSet]_vars

\* a lookup by an empty name that threw and left a queue of two as it was
C11_Witness ==
    /\ lastOp.op = "captureSystemProperty"
    /\ lastOp.arg = ""
    /\ thrown = ErrNilParam
    /\ trace = <<>>
    /\ capturedObjectCount = 2

\* the get events of a trace whose identifier and table resolve to a row
Resolved(tr) ==
    {j \in At(tr, "get") : \E id \in DOMAIN Rows : id = tr[j].id /\ Rows[id].tbl = tr[j].arg}

Refs(row, fields) == {row[f] : f \in fields} \ {""}

\* the records a catalog variable's type links it to
Auxiliary(v) ==
    LET var == Rows[v]
    IN  CASE var.type \in {"14", "17"} ->
               Refs(var, {"macro", "summary_macro", "sp_widget", "macroponent"})
          [] var.type \in {"3", "5"} ->
               {q \in DOMAIN Rows : Rows[q].tbl = TABLES.CATALOG_ITEM_VARIABLE_QUESTION_CHOICE
                                    /\ Rows[q].question = v}
          [] var.type = "15" -> Refs(var, {"ui_page"})
          [] OTHER -> {}

\* C13: captureServiceCatalogVariable of an existing variable queues the
\* variable and, by its type, exactly: for types 14 and 17 the macro, the
\* summary macro, the SP widget and the macroponent that are set; for types
\* 3 and 5 its question choices; for type 15 the UI page when set; for any
\* other type nothing more.
C13_VariableDispatch ==
    [][/\ lastOp'.op = "captureServiceCatalogVariable"
       /\ GRGet(TABLES.CATALOG_ITEM_VARIABLE, lastOp'.arg)
       => /\ thrown' = NoError
          /\ MapKeys(capturedObjectMap')
                = MapKeys(capturedObjectMap) \cup {lastOp'.arg} \cup Auxiliary(lastOp'.arg)
          /\ \A i \in 1..Len(capturedObjectMap') :
                capturedObjectMap'[i].tbl = Rows[capturedObjectMap'[i].sys_id].tbl]_vars

\* a variable of type 1 whose macro, widget and UI page are set and which has
\* a choice was captured after one of type 15 with a macro: the queue holds
\* the two variables and the UI page only
C13_Witness ==
    /\ lastOp.op = "captureServiceCatalogVariable"
    /\ lastOp.arg = "cv1"
    /\ MapKeys(capturedObjectMap) = {"cv15", "page1", "cv1"}

\* the forms of a table that are not forms of a report view
LayoutForms(tblName) ==
    {f \in DOMAIN Rows :
        /\ Rows[f].tbl = TABLES.FORM
        /\ Rows[f].name = tblName
        /\ Rows[f].view # ""
        /\ ~StartsWith(ToUpperCase(Rows[Rows[f].view].name), "RPT")}

\* the sections of a form
SectionsOf(f) ==
    {Rows[fs].sys_ui_section : fs \in {x \in DOMAIN Rows : Rows[x].tbl = TABLES.FORM_SECTION
                                                          /\ Rows[x].sys_ui_form = f}} \ {""}

\* the related lists of a form's table and view
RelatedListsOf(f) ==
    {rl \in DOMAIN Rows : /\ Rows[rl].tbl = TABLES.FORM_RELATED_LIST
                          /\ Rows[rl].name = Rows[f].name
                          /\ Rows[rl].view = Rows[f].view}

\* C14: captureFormLayoutsForTable never throws for a table name that is not
\* nil; every form of the table (report views apart) is queued with its
\* sections, whether or not its view has a related list, and a form without
\* one gets a warning and does not keep the forms after it from being queued.
C14_MissingRelatedListTolerated ==
    lastOp.op = "captureFormLayoutsForTable" /\ ~JSUtilNil(lastOp.arg) =>
       /\ thrown = NoError
       /\ \A f \in LayoutForms(lastOp.arg) :
             /\ {f} \cup SectionsOf(f) \cup RelatedListsOf(f) \subseteq MapKeys(capturedObjectMap)
             /\ RelatedListsOf(f) = {} <=>
                   \E j \in At(trace, "warning") : trace[j].id = Rows[f].view

\* the forms of incident were captured: the default view's form, which has
\* no related list, with its two sections, then the mobile view's form with
\* its section and its related list; the report view's form was left out
C14_Witness ==
    /\ lastOp.op = "captureFormLayoutsForTable"
    /\ lastOp.arg = "incident"
    /\ thrown = NoError
    /\ At(trace, "warning") # {}
    /\ MapKeys(capturedObjectMap) = {"f1", "s1", "s2", "f3", "s3", "rl3"}

\* the position of the last event of one kind in a trace
LastAt(tr, ev) == CHOOSE j \in At(tr, ev) : \A k \in At(tr, ev) : k <= j

\* C15: every write of a writeUpdateSet call is made after the switch to the
\* target update set and before the switch back, while the target is the
\* current update set; when the target is not the update set that was
\* current before the call, nothing is written into that one.
C15_WritesOnlyInTarget ==
    lastOp.op = "writeUpdateSet" =>
       \A j \in At(trace, "saveRecord") :
          /\ Cardinality(At(trace, "set")) = 2
          /\ \E k \in At(trace, "set") : k < j
          /\ j < LastAt(trace, "set")
          /\ trace[j].arg = Target(trace)
          /\ Target(trace) \in {u.sys_id : u \in sysUpdateSet}
          /\ \A u \in sysUpdateSet :
                u.sys_id = Target(trace) =>
                   u.name = lastOp.arg /\ u.application = ScopeSysId(currentScope)
          /\ Target(trace) # trace[LastAt(trace, "set")].id =>
                trace[j].arg # trace[LastAt(trace, "set")].id

\* two records were written to an update set created by the call, which is
\* not the one the session is back on
C15_Witness ==
    /\ lastOp.op = "writeUpdateSet"
    /\ At(trace, "insert") # {}
    /\ Cardinality(At(trace, "saveRecord")) = 2
    /\ \A j \in At(trace, "saveRecord") : trace[j].arg # currentUpdateSet
    /\ currentUpdateSet = trace[LastAt(trace, "set")].id

\* C20: in every reachable state the count equals the number of distinct
\* identifiers in the queue, the queue holds no identifier twice, and
\* getObjectCount() returns that number.
C20_CountMatchesQueue ==
    /\ capturedObjectCount = Cardinality(MapKeys(capturedObjectMap))
    /\ capturedObjectCount = Len(capturedObjectMap)
    /\ lastOp.op = "getObjectCount" => returned = JSNumber(Cardinality(MapKeys(capturedObjectMap)))

\* getObjectCount() returned 3 for a queue that a recursive capture filled
\* after a commit had emptied an earlier one
C20_Witness ==
    /\ lastOp.op = "getObjectCount"
    /\ returned = JSNumber(3)
    /\ MapKeys(capturedObjectMap) = {"c", "r3", "r4"}
    /\ \E u \in sysUpdateSet : u.name = "Hotfix"

\* the logging methods and the level each logs at
LogLevelOf == [op \in {"debug", "info", "warn", "error", "fatal"} |->
                 CASE op = "debug" -> "DEBUG"
                   [] op = "info"  -> "INFO"
                   [] op = "warn"  -> "WARN"
                   [] op = "error" -> "ERROR"
                   [] op = "fatal" -> "FATAL"]

\* the levels from the least to the most severe
Severity == <<"DEBUG", "INFO", "WARN", "ERROR", "FATAL">>

\* the level a message logged at level msg is accepted at: not below cur
AtLeast(msg, cur) ==
    \E i, j \in 1..Len(Severity) : Severity[i] = msg /\ Severity[j] = cur /\ i >= j

\* the statements a logging call can queue
Statements == {"[" \o k \o "]: " \o m : k \in DOMAIN LOG_LEVEL, m \in Messages}

\* C16: a new logger is at ERROR with an empty queue; debug, info, warn,
\* error and fatal append exactly one statement, the level's label and the
\* message, when the level of the call is not below the logger's level, and
\* leave the queue unchanged otherwise; the level is not changed by logging.
C16_FilteredAtLogTime ==
    /\ currentLevel = "ERROR" /\ stmtQueue = <<>>
    /\ [][lastOp'.op \in DOMAIN LogLevelOf =>
             /\ currentLevel' = currentLevel
             /\ IF currentLevel # Null /\ AtLeast(LogLevelOf[lastOp'.op], currentLevel)
                THEN /\ stmtQueue' = Append(stmtQueue, "[" \o LogLevelOf[lastOp'.op] \o "]: "
                                                          \o lastOp'.arg)
                     /\ thrown' = NoError
                ELSE stmtQueue' = stmtQueue]_vars

\* at level INFO a debug call left a queue of one info statement as it was
C16_Witness ==
    /\ lastOp.op = "debug"
    /\ currentLevel = "INFO"
    /\ thrown = NoError
    /\ stmtQueue = <<"[INFO]: a">>

RECURSIVE Joined(_, _, _)

\* the first n statements of q, each but the first preceded by sep
Joined(q, n, sep) ==
    IF n = 0 THEN ""
    ELSE IF n = 1 THEN q[1]
    ELSE Joined(q, n - 1, sep) \o sep \o q[n]

C18_FlushNeverThrows ==
    lastOp.op = "flush" =>
       /\ thrown = NoError
       /\ stmtQueue = <<>>
       /\ lastOp.fault # NoFault => returned = Undefined

\* a flush whose join raised an error returned undefined and left the queue
\* empty
C18_Witness ==
    /\ lastOp.op = "flush"
    /\ lastOp.fault = 0
    /\ thrown = NoError
    /\ returned = Undefined
    /\ stmtQueue = <<>>

\* C19 (as claimed): setLogLevel(v) sets the level whose value is v when v is
\* one of the five LOG_LEVEL values and throws for null, undefined and any
\* other value.
C19_SetLogLevelStrict ==
    [][lastOp'.op = "setLogLevel" =>
          LET v == lastOp'.val
              levels == {k \in DOMAIN LOG_LEVEL : v = JSNumber(LOG_LEVEL[k].value)}
          IN  IF levels # {}
              THEN thrown' = NoError /\ currentLevel' \in levels
              ELSE thrown' # NoError]_vars

\* queue q1 starts with the entries of q, in order and with their containers
Extends(q1, q) == Len(q) <= Len(q1) /\ SubSeq(q1, 1, Len(q)) = q

\* C21: the queue is empty at construction; a capture operation only ever
\* appends to it, keeping every entry and the container first stored for an
\* identifier; entries leave only when writeUpdateSet clears the queue, all at
\* once.
C21_QueueGrowsUntilCommit ==
    /\ capturedObjectMap = <<>>
    /\ [][/\ lastOp'.op \in CaptureOps => Extends(capturedObjectMap', capturedObjectMap)
          /\ lastOp'.op \notin CaptureOps =>
                \/ capturedObjectMap' = capturedObjectMap
                \/ /\ lastOp'.op = "writeUpdateSet"
                   /\ capturedObjectMap' = <<>>]_vars

\* the row n1 is queued under u_config, and was last recorded again through a
\* GlideRecord of u_base
C21_Witness ==
    /\ lastOp.op \in {"_recordObject", "captureDataRecord"}
    /\ lastOp.gr = GR("n1", "u_base")
    /\ \E i \in 1..Len(capturedObjectMap) : capturedObjectMap[i] = GR("n1", "u_config")

\* a writeUpdateSet call with this name reaches its write phase from this
\* state: the name is not nil, the session's scope has a sys_scope row and
\* the session's current update set can be retrieved
ReachesWritePhase(updateSetName) ==
    /\ ~JSUtilNil(updateSetName)
    /\ currentScope \in {"rhino.global", "x_app"}
    /\ \E u \in sysUpdateSet : u.sys_id = currentUpdateSet

\* C22: a writeUpdateSet call that reaches its write phase returns normally;
\* an error raised while switching to the target update set or while
\* resolving or writing an entry is caught and logged, and nothing is caught
\* when no such error is raised.
C22_WriteErrorsCaught ==
    [][lastOp'.op = "writeUpdateSet" /\ ReachesWritePhase(lastOp'.arg) =>
          /\ thrown' = NoError
          /\ returned' = Undefined
          /\ IF lastOp'.fault = NoFault
             THEN At(trace', "catch") = {}
             ELSE \E j \in At(trace', "catch") : trace'[j].arg = ErrPlatform]_vars

\* the switch to the target update set raised an error: it was caught, and
\* the call returned
C22_Witness ==
    /\ lastOp.op = "writeUpdateSet"
    /\ lastOp.fault = 0
    /\ thrown = NoError
    /\ \E j \in At(trace, "catch") : trace[j].arg = ErrPlatform

\* C28: a writeUpdateSet call fails exactly when it does not reach its write
\* phase (nil name, scope without a sys_scope row, current update set not
\* retrievable); it then creates no update set and never switches the
\* session's current update set.
C28_EarlyFailureTouchesNothing ==
    [][lastOp'.op = "writeUpdateSet" =>
          /\ thrown' # NoError <=> ~ReachesWritePhase(lastOp'.arg)
          /\ thrown' # NoError =>
                /\ thrown' \in {ErrNilParam, ErrNoScope, ErrNoCurrentUpdateSet}
                /\ sysUpdateSet' = sysUpdateSet
                /\ currentUpdateSet' = currentUpdateSet
                /\ At(trace', "insert") = {}
                /\ At(trace', "set") = {}]_vars

\* a commit to an update set that does not exist yet failed because the
\* current update set could not be retrieved: none was created
C28_Witness ==
    /\ lastOp.op = "writeUpdateSet"
    /\ lastOp.arg = "Release"
    /\ thrown = ErrNoCurrentUpdateSet
    /\ ~(\E u \in sysUpdateSet : u.name = "Release")
    /\ At(trace, "set") = {}

\* the related-table rows of archive rule r
RelatedOf(r) ==
    {id \in DOMAIN Rows : Rows[id].tbl = TABLES.ARCHIVE_RULE_RELATED /\ Rows[id].archive_map = r}

\* the rules captureArchivalRule was called for, in order of the calls
Expanded(tr) == {j \in At(tr, "captureArchivalRule") : TRUE}

\* C26: a captureArchivalRule(r) call that returns has recorded r and every
\* related row whose archive_map is r, and likewise for every rule it went
\* on to; a rule c is captured once for each related row of another captured
\* rule that refers to it, and a related row that refers to its own rule is
\* recorded without the rule being captured again.
C26_ArchivalRuleClosure ==
    lastOp.op = "captureArchivalRule" /\ thrown = NoError =>
       /\ Expanded(trace) # {}
       /\ \A j \in Expanded(trace) :
             /\ trace[j].id \in MapKeys(capturedObjectMap)
             /\ RelatedOf(trace[j].id) \subseteq MapKeys(capturedObjectMap)
       /\ \A c \in {trace[j].id : j \in Expanded(trace)} :
             Cardinality({j \in Expanded(trace) : trace[j].id = c})
                = (IF c = ToStr(lastOp.arg) THEN 1 ELSE 0)
                  + Cardinality({<<j, id>> \in Expanded(trace) \X DOMAIN Rows :
                                    /\ id \in RelatedOf(trace[j].id)
                                    /\ trace[j].id # c
                                    /\ Rows[id].table_archive_rule = c})
       /\ \A j \in Expanded(trace) : \A id \in RelatedOf(trace[j].id) :
             LET c == Rows[id].table_archive_rule
             IN  ~JSUtilNil(c) /\ c # trace[j].id =>
                    \E k \in Expanded(trace) : k > j /\ trace[k].id = c

\* rule d was captured: its related row r5 refers to rule c, which was
\* captured in turn, with r3 (which refers to c itself) and r4
C26_Witness ==
    /\ lastOp.op = "captureArchivalRule"
    /\ lastOp.arg = "d"
    /\ thrown = NoError
    /\ {"d", "r5", "c", "r3", "r4"} \subseteq MapKeys(capturedObjectMap)
    /\ Cardinality({j \in Expanded(trace) : trace[j].id = "c"}) = 1

\* the entries a step appended to the queue
Added(q, q1) == {q1[i] : i \in (Len(q) + 1)..Len(q1)}

\* C25 (as claimed): when captureListLayoutsForTable or
\* captureFormLayoutsForTable returns, the UI view of every list layout, form
\* and related list it recorded is in the queue.
C25_ViewCapturedWithLayout ==
    [][lastOp'.op \in {"captureListLayoutsForTable", "captureFormLayoutsForTable"}
       /\ thrown' = NoError =>
          \A e \in Added(capturedObjectMap, capturedObjectMap') :
             e.tbl \in {TABLES.LIST_LAYOUT, TABLES.FORM, TABLES.FORM_RELATED_LIST} =>
                Rows[e.sys_id].view \in MapKeys(capturedObjectMap')]_vars

\* the rows of table tbl whose field has the value
RowsWhere(tbl, field, value) ==
    {id \in DOMAIN Rows : Rows[id].tbl = tbl /\ Rows[id][field] = value}

\* the rows of table tbl whose field refers to one of the rows in ids
RowsOf(tbl, field, ids) ==
    {id \in DOMAIN Rows : Rows[id].tbl = tbl /\ Rows[id][field] \in ids}

\* the tables an operation read, by its trace
TablesRead(tr) == {tr[j].id : j \in At(tr, "lookup")}

LookedUp(tr, tbl) == {tr[j].arg : j \in {k \in At(tr, "lookup") : tr[k].id = tbl}}

\* C24: the scope name the builder works with is "global" when the platform
\* reports "rhino.global" and the reported name otherwise; the script include
\* lookup (by API name), the role lookup (by scope and name) and the scope
\* lookup of writeUpdateSet all use that name, and an update set
\* writeUpdateSet creates belongs to the scope of that name.
C24_ScopeNameNormalized ==
    LET name == IF currentScope = "rhino.global" THEN "global" ELSE currentScope
    IN  /\ lastOp.op = "captureScriptIncludeByName" /\ ~JSUtilNil(lastOp.arg) =>
              LookedUp(trace, TABLES.SCRIPT_INCLUDE) = {name \o "." \o lastOp.arg}
        /\ lastOp.op = "captureUserRole" /\ ~JSUtilNil(lastOp.arg) =>
              LookedUp(trace, TABLES.ROLE) = {"sys_scope=" \o name \o "^name=" \o lastOp.arg}
        /\ lastOp.op = "writeUpdateSet" /\ ~JSUtilNil(lastOp.arg) =>
              /\ LookedUp(trace, TABLES.SYS_SCOPE) = {name}
              /\ \A j \in At(trace, "insert") : \A u \in sysUpdateSet :
                    u.sys_id = trace[j].id =>
                       \E r \in ScopeRows : r.name = name /\ r.sys_id = u.application

\* in a session the platform reports as rhino.global, the script include Util
\* was found under the API name global.Util
C24_Witness ==
    /\ currentScope = "rhino.global"
    /\ lastOp.op = "captureScriptIncludeByName"
    /\ lastOp.arg = "Util"
    /\ thrown = NoError
    /\ "si1" \in MapKeys(capturedObjectMap)

\* C29: a composite capture that throws part-way rolls nothing back: the
\* queue it leaves starts with the queue it found and the count is the
\* number of entries, and a category that was found (one row has the name) is queued although the
\* lookup of one of its properties failed; a later writeUpdateSet during
\* which no platform call fails writes every entry of the queue that resolves.
C29_PartialCaptureKept ==
    [][/\ lastOp'.op = "captureSystemPropertyCategoryWithAssociations"
          /\ thrown' # NoError =>
             /\ Extends(capturedObjectMap', capturedObjectMap)
             /\ capturedObjectCount' = Len(capturedObjectMap')
             /\ Cardinality(RowsWhere(TABLES.SYS_PROPERTIES_CATEGORY, "name", lastOp'.arg)) = 1 =>
                   RowsWhere(TABLES.SYS_PROPERTIES_CATEGORY, "name", lastOp'.arg)
                      \subseteq MapKeys(capturedObjectMap')
       /\ lastOp'.op = "writeUpdateSet" /\ thrown' = NoError /\ lastOp'.fault = NoFault =>
             \A i \in Resolvable(capturedObjectMap) :
                \E j \in At(trace', "saveRecord") :
                   trace'[j].id = capturedObjectMap[i].sys_id]_vars

\* a commit wrote what a failed capture of Cat A had left: the category, its
\* first property and the association to it, and not the second association,
\* whose property name matches two rows
C29_Witness ==
    /\ lastOp.op = "writeUpdateSet"
    /\ thrown = NoError
    /\ {"cat1", "p1", "m1"} \subseteq {trace[j].id : j \in At(trace, "saveRecord")}
    /\ ~("m2" \in {trace[j].id : j \in At(trace, "saveRecord")})

\* the getter of each level
GetterOf == [k \in DOMAIN LOG_LEVEL |->
               CASE k = "DEBUG" -> "isDebugLevelEnabled"
                 [] k = "INFO"  -> "isInfoLevelEnabled"
                 [] k = "WARN"  -> "isWarnLevelEnabled"
                 [] k = "ERROR" -> "isErrorLevelEnabled"
                 [] k = "FATAL" -> "isFatalLevelEnabled"]

\* what the getter of level k returns for the logger lg
GetterResult(lg, k) ==
    CASE k = "DEBUG" -> isDebugLevelEnabled(lg).returned
      [] k = "INFO"  -> isInfoLevelEnabled(lg).returned
      [] k = "WARN"  -> isWarnLevelEnabled(lg).returned
      [] k = "ERROR" -> isErrorLevelEnabled(lg).returned
      [] k = "FATAL" -> isFatalLevelEnabled(lg).returned

\* C27: on a logger whose level is set, the getter of level X returns true
\* exactly when X is not below the logger's level, the logging method of X
\* appends a statement exactly then, and when the getter of X returns true the
\* getter of every level above X returns true as well.
C27_GetterAgreesWithLogging ==
    [][thrown' = NoError =>
          /\ \A k \in DOMAIN LOG_LEVEL :
                lastOp'.op = GetterOf[k] =>
                   /\ returned' = JSBoolean(AtLeast(k, currentLevel))
                   /\ returned' = JSBoolean(TRUE) =>
                         \A h \in DOMAIN LOG_LEVEL :
                            AtLeast(h, k) => GetterResult(LoggerStart, h) = JSBoolean(TRUE)
          /\ lastOp'.op \in DOMAIN LogLevelOf =>
                LET k == LogLevelOf[lastOp'.op]
                IN  /\ GetterResult(LoggerStart, k) \in {JSBoolean(TRUE), JSBoolean(FALSE)}
                    /\ GetterResult(LoggerStart, k) = JSBoolean(TRUE)
                          <=> Len(stmtQueue') = Len(stmtQueue) + 1]_vars

\* at level WARN, isWarnLevelEnabled returned true
C27_Witness ==
    /\ lastOp.op = "isWarnLevelEnabled"
    /\ currentLevel = "WARN"
    /\ thrown = NoError
    /\ returned = JSBoolean(TRUE)

\* C30 (as claimed): the logger's level is always one of the five levels; a
\* setLogLevel or setLogLevelBySysProperty call that throws leaves the level
\* as it was.
C30_LevelSurvivesInvalidValue ==
    [][/\ currentLevel' \in DOMAIN LOG_LEVEL
       /\ lastOp'.op \in {"setLogLevel", "setLogLevelBySysProperty"} /\ thrown' # NoError =>
             currentLevel' = currentLevel]_vars

====
